---------------------------- MODULE Spec2Model ----------------------------
(***************************************************************************)
(* Model of olcPGEX_Media.h (olc::Media): the bounded video frame queue,   *)
(* the audio sample queue, the background decoding thread, the host-side   *)
(* pull API and the seek/close/open controller.                            *)
(*                                                                         *)
(* Five specifications are defined:                                        *)
(*   SpecVQ   - Media::VideoQueue driven by arbitrary call sequences       *)
(*   SpecAQ   - Media::AudioQueue driven by arbitrary call sequences       *)
(*   Spec     - the whole pipeline: host thread, decoding thread and the   *)
(*              audio device callback thread, interleaved at the           *)
(*              granularity of their accesses to shared state              *)
(*   FairSpec - Spec with the fairness the thread scheduler provides       *)
(*   SpecPlay - playback of open media: whole packets committed by the     *)
(*              decoding thread and whole pull calls of the host           *)
(***************************************************************************)
EXTENDS Integers, Sequences, FiniteSets, TLC

VARIABLES
    video_fifo,   \* Media::video_fifo  (VideoQueue fields)
    audio_fifo,   \* Media::audio_fifo  (the AVAudioFifo behind AudioQueue)
    media,        \* the remaining Media fields
    worker,       \* the frame_loader thread: position in DecodingThread and its locals
    host,         \* the host (controller/consumer) thread: position in the API call it runs
    callback,     \* the audio device callback thread: position in GetAudioFrame
    q_call        \* the last queue call made by the driver of SpecVQ / SpecAQ

vars == <<video_fifo, audio_fifo, media, worker, host, callback, q_call>>

---------------------------------------------------------------------------
(* Bounds of the model *)

MaxVideoCapacity == 3    \* video_fifo capacities range over 2..MaxVideoCapacity
MaxOverfill      == 1    \* SpecVQ: push() is driven up to capacity + MaxOverfill
MaxFrameId       == 2    \* SpecVQ: frames written to back() are 1..MaxFrameId
MaxAudioCapacity == 2    \* SpecAQ: audio_fifo capacities range over 1..MaxAudioCapacity
MaxPushSamples   == 3    \* SpecAQ: a push carries 1..MaxPushSamples samples
MaxBatches       == 3    \* SpecAQ: number of push calls
MaxPackets       == 3    \* Spec: packets in the media file
MaxSeeks         == 1    \* Spec: Seek calls the host makes
MaxAudioFrames   == 1    \* Spec: audio frames decoded from one packet
MaxFrameSamples  == 1    \* Spec: samples in one decoded audio frame
PipelineAudioCap == 2    \* Spec: samples audio_fifo is initialised for
MaxCallbackSamples == 1  \* Spec: samples one device callback asks for
MaxDeltaTime     == 2    \* SpecPlay: delta_time of one GetVideoFrame call is 0..MaxDeltaTime
MaxClock         == 4    \* SpecPlay: delta_time_accumulator stays within 0..MaxClock

(* Program constants *)

UINT16_RANGE == 65536    \* uint16_t _size
EmptyFrame   == 0        \* an unreferenced AVFrame (av_frame_unref / av_frame_alloc)
audio_sample_rate == 1   \* samples per timestamp unit

Min(a, b) == IF a < b THEN a ELSE b
Max(a, b) == IF a > b THEN a ELSE b

---------------------------------------------------------------------------
(* Media::VideoQueue.  A queue value is a record                           *)
(*   [size, capacity, insert_idx, delete_idx, data, alloc]                 *)
(* data[i] is the frame held by slot i (its timestamp, EmptyFrame when the *)
(* slot is unreferenced); alloc is _data != nullptr.                       *)

VideoQueue_new ==
    [size |-> 0, capacity |-> 0, insert_idx |-> 0, delete_idx |-> 0,
     data |-> [i \in {} |-> EmptyFrame], alloc |-> FALSE]

VideoQueue_free(q) ==
    IF q.alloc
    THEN [q EXCEPT !.data = [i \in {} |-> EmptyFrame], !.alloc = FALSE,
                   !.size = 0, !.insert_idx = 0, !.delete_idx = 0]
    ELSE q

VideoQueue_clear_Mutant(q) == q

VideoQueue_clear(q) ==
    IF q.alloc
    THEN [q EXCEPT !.data = [i \in DOMAIN q.data |-> EmptyFrame],
                   !.size = 0, !.insert_idx = 0, !.delete_idx = 0]
    ELSE q

VideoQueue_init(q, capacity) ==
    LET r == VideoQueue_free(VideoQueue_clear(
                 [q EXCEPT !.size = 0, !.insert_idx = 0, !.delete_idx = 0]))
    IN  IF capacity <= 1
        THEN r
        ELSE [r EXCEPT !.capacity = capacity, !.alloc = TRUE,
                       !.data = [i \in 0..(capacity - 1) |-> EmptyFrame]]

VideoQueue_back(q)  == q.insert_idx
VideoQueue_front(q) == q.delete_idx

VideoQueue_push_Mutant(q) ==
    [q EXCEPT !.insert_idx = (q.insert_idx + 1) % q.capacity,
              !.size = (q.size + 2) % UINT16_RANGE]

VideoQueue_push(q) ==
    [q EXCEPT !.insert_idx = (q.insert_idx + 1) % q.capacity,
              !.size = (q.size + 1) % UINT16_RANGE]

VideoQueue_pop_Mutant(q) ==
    IF q.size > 0
    THEN [q EXCEPT !.data[q.delete_idx] = EmptyFrame, !.size = q.size - 1]
    ELSE q

VideoQueue_pop(q) ==
    IF q.size > 0
    THEN [q EXCEPT !.data[q.delete_idx] = EmptyFrame,
                   !.delete_idx = (q.delete_idx + 1) % q.capacity,
                   !.size = q.size - 1]
    ELSE q

VideoQueue_size(q)     == q.size
VideoQueue_capacity(q) == q.capacity

---------------------------------------------------------------------------
(* Media::AudioQueue over FFmpeg's AVAudioFifo.  A fifo value is a record  *)
(*   [samples, allocated, alloc]                                           *)
(* samples is the sequence of buffered samples, oldest first; allocated is *)
(* the number of samples the buffers were allocated for; alloc is          *)
(* _fifo != nullptr.  The av_audio_fifo_* operators follow the documented  *)
(* behaviour of libavutil: drain rejects a count above size, read returns  *)
(* at most size samples, write reallocates the buffers when the free space *)
(* is smaller than the samples written.                                    *)

AudioQueue_new == [samples |-> <<>>, allocated |-> 0, alloc |-> FALSE]

av_audio_fifo_alloc(nb_samples) ==
    [samples |-> <<>>, allocated |-> nb_samples, alloc |-> TRUE]

av_audio_fifo_size(f)  == Len(f.samples)
av_audio_fifo_space(f) == f.allocated - Len(f.samples)

av_audio_fifo_drain(f, nb_samples) ==
    IF nb_samples < 0 \/ nb_samples > Len(f.samples)
    THEN f
    ELSE [f EXCEPT !.samples = SubSeq(f.samples, nb_samples + 1, Len(f.samples))]

av_audio_fifo_write(f, data) ==
    LET g == IF av_audio_fifo_space(f) < Len(data)
             THEN [f EXCEPT !.allocated = 2 * (Len(f.samples) + Len(data))]
             ELSE f
    IN  [g EXCEPT !.samples = g.samples \o data]

\* the samples av_audio_fifo_read(f, data, nb_samples) copies into data
av_audio_fifo_read_data(f, nb_samples) ==
    IF nb_samples < 0 THEN <<>>
    ELSE SubSeq(f.samples, 1, Min(nb_samples, Len(f.samples)))

\* number of samples av_audio_fifo_read(f, data, nb_samples) returns
av_audio_fifo_read_count(f, nb_samples) ==
    IF nb_samples < 0 THEN -1 ELSE Min(nb_samples, Len(f.samples))

av_audio_fifo_read(f, nb_samples) ==
    IF nb_samples < 0 THEN f
    ELSE av_audio_fifo_drain(f, Min(nb_samples, Len(f.samples)))

AudioQueue_init(f, capacity) ==
    IF capacity = 0 THEN f ELSE av_audio_fifo_alloc(capacity)

AudioQueue_push(f, data) ==
    LET space == av_audio_fifo_space(f)
        g == IF Len(data) > space
             THEN av_audio_fifo_drain(f, Min(av_audio_fifo_size(f), Len(data) - space))
             ELSE f
    IN  av_audio_fifo_write(g, data)

AudioQueue_pop_Mutant(f, samples) == av_audio_fifo_drain(f, samples)

AudioQueue_pop(f, samples)       == av_audio_fifo_read(f, samples)
AudioQueue_pop_count(f, samples) == av_audio_fifo_read_count(f, samples)
AudioQueue_drain(f, samples)     == av_audio_fifo_drain(f, samples)
AudioQueue_size(f)               == av_audio_fifo_size(f)
AudioQueue_capacity(f)           == av_audio_fifo_space(f) + av_audio_fifo_size(f)
AudioQueue_clear(f) ==
    IF f.alloc THEN av_audio_fifo_drain(f, av_audio_fifo_size(f)) ELSE f
AudioQueue_free(f) == AudioQueue_new


---------------------------------------------------------------------------
(* State of the pipeline *)

Media_new(paused) ==
    [ file_open             |-> FALSE,   \* av_format_ctx != nullptr
      read_pos              |-> 0,       \* index of the next packet av_read_frame returns
      is_paused             |-> paused,
      finished_reading      |-> FALSE,
      keep_loading          |-> TRUE,
      video_opened          |-> FALSE,
      attached_pic          |-> FALSE,
      video_frame           |-> EmptyFrame,   \* the frame last converted into video_frame
      last_video_pts        |-> 0,
      delta_time_accumulator |-> 0,
      audio_opened          |-> FALSE,
      audio_frames_consumed |-> 0,
      audio_time            |-> 0,
      device_started        |-> FALSE,   \* the miniaudio playback device is started
      terminated            |-> FALSE ]  \* std::terminate() was called or the process faulted

NoPacket == [kind |-> "none", pts |-> 0]

Worker_new ==
    [ pc |-> "none",                     \* "none": frame_loader is not joinable
      packet |-> NoPacket,
      max_video_queue_size |-> -1,       \* the water marks are locals without
      min_video_queue_size |-> -1,       \* initialiser: -1 stands for a mark that
      min_audio_queue_size |-> -1,       \* was never assigned
      frames |-> 0,                      \* audio frames received from the current packet
      ret |-> "None" ]                   \* the Result the thread function returned

\* pc "idle": between calls; pc "return": the call has returned result (fr_ret for
\* FinishedReading) and the host has not looked at anything else yet
Host_new ==
    [ pc |-> "idle", op |-> "none",
      slot |-> 0, got |-> EmptyFrame, popped |-> EmptyFrame,
      result |-> "None", fr_ret |-> FALSE,
      wanted |-> 0, video_seeked |-> FALSE, audio_seeked |-> FALSE,
      baseline |-> 0,                    \* timestamp of the first video frame a seek accepted
      scale |-> 1,                       \* settings.preloaded_frames_scale of this Open
      closed_paused |-> FALSE,           \* this Open was called on open media that was paused
      seeks |-> 0 ]                      \* Seek calls made so far

Callback_new == [pc |-> "idle", samples_read |-> 0]

NoCall ==
    [op |-> "none", pre |-> 0, arg |-> 0, ret |-> 0, batch |-> 0, init |-> 0,
     out |-> <<>>]                       \* the samples the last pop copied out

\* bool is_paused has no initialiser: its value before the first Open is indeterminate
Init ==
    /\ video_fifo = VideoQueue_new
    /\ audio_fifo = AudioQueue_new
    /\ \E paused \in BOOLEAN : media = Media_new(paused)
    /\ worker = Worker_new
    /\ host = Host_new
    /\ callback = Callback_new
    /\ q_call = NoCall

Alive == ~media.terminated

---------------------------------------------------------------------------
(* std::condition_variable conditional *)

\* notify_one(): wakes the decoding thread if it is blocked in wait(), else nothing
notify_one(w) == IF w.pc = "waiting" THEN [w EXCEPT !.pc = "chk_video"] ELSE w

---------------------------------------------------------------------------
(* Media::DecodingThread, one action per access to shared state *)

\* finished_reading = false and the water marks computed at thread start
W_Start ==
    /\ Alive /\ worker.pc = "start"
    /\ media' = [media EXCEPT !.finished_reading = FALSE]
    /\ LET maxv == IF media.attached_pic THEN 1
                   ELSE VideoQueue_capacity(video_fifo) - 1
           minv == IF media.attached_pic THEN 1 ELSE Max(maxv \div 2, 1)
           mina == Max(AudioQueue_capacity(audio_fifo) \div 2, 1)
       IN  worker' = [worker EXCEPT
               !.pc = "chk_video",
               !.max_video_queue_size = IF media.video_opened THEN maxv ELSE @,
               !.min_video_queue_size = IF media.video_opened THEN minv ELSE @,
               !.min_audio_queue_size = IF media.audio_opened THEN mina ELSE @]
    /\ UNCHANGED <<video_fifo, audio_fifo, host, callback, q_call>>

\* the outcomes of comparing a size with a water mark: a mark that was never
\* assigned holds an indeterminate value, the comparison can go either way
AtOrBelow(size, mark) == IF mark < 0 THEN BOOLEAN ELSE {size <= mark}
EqualTo(size, mark)   == IF mark < 0 THEN BOOLEAN ELSE {size = mark}

\* wait phase: video_fifo.size() <= min_video_queue_size
W_CheckVideo ==
    /\ Alive /\ worker.pc = "chk_video"
    /\ \E low \in AtOrBelow(VideoQueue_size(video_fifo), worker.min_video_queue_size) :
          worker' = [worker EXCEPT !.pc =
              IF ~media.attached_pic /\ media.video_opened /\ low
              THEN "chk_keep2" ELSE "chk_audio"]
    /\ UNCHANGED <<video_fifo, audio_fifo, media, host, callback, q_call>>

\* wait phase: audio_fifo.size() <= min_audio_queue_size
W_CheckAudio ==
    /\ Alive /\ worker.pc = "chk_audio"
    /\ \E low \in AtOrBelow(AudioQueue_size(audio_fifo), worker.min_audio_queue_size) :
          worker' = [worker EXCEPT !.pc =
              IF media.audio_opened /\ low THEN "chk_keep2" ELSE "chk_keep"]
    /\ UNCHANGED <<video_fifo, audio_fifo, media, host, callback, q_call>>

ShutdownRequested_Mutant(m) == FALSE

\* keep_loading == false
ShutdownRequested(m) == m.keep_loading = FALSE

\* wait phase: if (keep_loading == false) break;
W_CheckKeepLoading ==
    /\ Alive /\ worker.pc = "chk_keep"
    /\ worker' = [worker EXCEPT !.pc =
          IF ShutdownRequested(media) THEN "chk_keep2" ELSE "wait"]
    /\ UNCHANGED <<video_fifo, audio_fifo, media, host, callback, q_call>>

\* conditional.wait(lock): the thread blocks until notified
W_Wait ==
    /\ Alive /\ worker.pc = "wait"
    /\ worker' = [worker EXCEPT !.pc = "waiting"]
    /\ UNCHANGED <<video_fifo, audio_fifo, media, host, callback, q_call>>

\* condition_variable::wait may return without a notification
W_SpuriousWake ==
    /\ Alive /\ worker.pc = "waiting"
    /\ worker' = [worker EXCEPT !.pc = "chk_video"]
    /\ UNCHANGED <<video_fifo, audio_fifo, media, host, callback, q_call>>

\* after the wait phase: if (keep_loading == false) break;
W_CheckKeepLoading2 ==
    /\ Alive /\ worker.pc = "chk_keep2"
    /\ worker' = [worker EXCEPT !.pc =
          IF ShutdownRequested(media) THEN "finish" ELSE "read"]
    /\ UNCHANGED <<video_fifo, audio_fifo, media, host, callback, q_call>>

\* where a packet of the given kind is routed
Route(kind) ==
    IF media.video_opened /\ kind = "video" THEN "v_size"
    ELSE IF media.audio_opened /\ kind = "audio" THEN "a_recv"
    ELSE "chk_video"

\* av_read_frame returns the next packet; the packet at index p carries timestamp p + 1
W_Read ==
    /\ Alive /\ worker.pc = "read"
    /\ media.read_pos < MaxPackets
    /\ \E kind \in {"video", "audio"} :
          worker' = [worker EXCEPT !.pc = Route(kind),
                        !.packet = IF Route(kind) = "chk_video" THEN NoPacket
                                   ELSE [kind |-> kind, pts |-> media.read_pos + 1]]
    /\ media' = [media EXCEPT !.read_pos = @ + 1]
    /\ UNCHANGED <<video_fifo, audio_fifo, host, callback, q_call>>

\* av_read_frame returns end of file, or an error anywhere in the file
W_ReadEnd ==
    /\ Alive /\ worker.pc = "read"
    /\ worker' = [worker EXCEPT !.pc = "finish"]
    /\ UNCHANGED <<video_fifo, audio_fifo, media, host, callback, q_call>>

\* if (max_video_queue_size == video_fifo.size())
W_VideoCheckFull ==
    /\ Alive /\ worker.pc = "v_size"
    /\ \E full \in EqualTo(VideoQueue_size(video_fifo), worker.max_video_queue_size) :
          worker' = [worker EXCEPT !.pc = IF full THEN "v_pop" ELSE "v_decode"]
    /\ UNCHANGED <<video_fifo, audio_fifo, media, host, callback, q_call>>

\* video_fifo.pop(): the oldest frame is evicted
W_VideoEvict ==
    /\ Alive /\ worker.pc = "v_pop"
    /\ video_fifo' = VideoQueue_pop(video_fifo)
    /\ worker' = [worker EXCEPT !.pc = "v_decode"]
    /\ UNCHANGED <<audio_fifo, media, host, callback, q_call>>

\* the decoder returns a frame: it is written into the slot back() names
W_VideoDecodeFrame ==
    /\ Alive /\ worker.pc = "v_decode"
    /\ video_fifo' = [video_fifo EXCEPT
           !.data[VideoQueue_back(video_fifo)] = worker.packet.pts]
    /\ worker' = [worker EXCEPT !.pc = "v_push"]
    /\ UNCHANGED <<audio_fifo, media, host, callback, q_call>>

\* avcodec_receive_frame returns EAGAIN / EOF: the slot is left unreferenced
\* (pkt_size == -1) and nothing is pushed
W_VideoDecodeNoFrame ==
    /\ Alive /\ worker.pc = "v_decode"
    /\ video_fifo' = [video_fifo EXCEPT
           !.data[VideoQueue_back(video_fifo)] = EmptyFrame]
    /\ worker' = [worker EXCEPT !.pc = "chk_video", !.packet = NoPacket]
    /\ UNCHANGED <<audio_fifo, media, host, callback, q_call>>

\* the thread function has returned ret; frame_loader stays joinable
Exited(ret) == [Worker_new EXCEPT !.pc = "exited", !.ret = ret]

\* what DecodingThread does when an OLC_MEDIA_ASSERT on a decode step fails:
\* the macro returns Result::Error from the thread function
DecodeAssertFailed == Exited("Error")

\* avcodec_send_packet fails, or avcodec_receive_frame fails with another error
W_VideoDecodeError ==
    /\ Alive /\ worker.pc = "v_decode"
    /\ worker' = DecodeAssertFailed
    /\ UNCHANGED <<video_fifo, audio_fifo, media, host, callback, q_call>>

\* video_fifo.push()
W_VideoPush ==
    /\ Alive /\ worker.pc = "v_push"
    /\ video_fifo' = VideoQueue_push(video_fifo)
    /\ worker' = [worker EXCEPT !.pc = "chk_video", !.packet = NoPacket]
    /\ UNCHANGED <<audio_fifo, media, host, callback, q_call>>

\* the n samples of an audio block decoded from a packet
Block(pts, n) == [i \in 1..n |-> pts]

\* one more audio frame is received, resampled and pushed
W_AudioDecodeFrame ==
    /\ Alive /\ worker.pc = "a_recv"
    /\ worker.frames < MaxAudioFrames
    /\ \E n \in 1..MaxFrameSamples :
          audio_fifo' = AudioQueue_push(audio_fifo, Block(worker.packet.pts, n))
    /\ worker' = [worker EXCEPT !.frames = @ + 1]
    /\ UNCHANGED <<video_fifo, media, host, callback, q_call>>

\* avcodec_receive_frame returns EAGAIN / EOF: the receive loop ends
W_AudioDecodeDone ==
    /\ Alive /\ worker.pc = "a_recv"
    /\ worker' = [worker EXCEPT !.pc = "chk_video", !.packet = NoPacket, !.frames = 0]
    /\ UNCHANGED <<video_fifo, audio_fifo, media, host, callback, q_call>>

\* avcodec_send_packet, avcodec_receive_frame or swr_convert_frame fails
W_AudioDecodeError ==
    /\ Alive /\ worker.pc = "a_recv"
    /\ worker' = DecodeAssertFailed
    /\ UNCHANGED <<video_fifo, audio_fifo, media, host, callback, q_call>>

\* the loop was left by a break: finished_reading = true; return Result::Success
W_Finish ==
    /\ Alive /\ worker.pc = "finish"
    /\ media' = [media EXCEPT !.finished_reading = TRUE]
    /\ worker' = Exited("Success")
    /\ UNCHANGED <<video_fifo, audio_fifo, host, callback, q_call>>

WorkerStep ==
    \/ W_Start \/ W_CheckVideo \/ W_CheckAudio \/ W_CheckKeepLoading \/ W_Wait
    \/ W_CheckKeepLoading2 \/ W_Read \/ W_ReadEnd
    \/ W_VideoCheckFull \/ W_VideoEvict \/ W_VideoDecodeFrame
    \/ W_VideoDecodeNoFrame \/ W_VideoDecodeError \/ W_VideoPush
    \/ W_AudioDecodeFrame \/ W_AudioDecodeDone \/ W_AudioDecodeError \/ W_Finish

---------------------------------------------------------------------------
(* Host thread: the public API.  A call starts when the host is idle.      *)

IsVideoOpened == media.video_opened
IsAudioOpened == media.audio_opened
IsPaused      == media.is_paused
HasAlbumArt   == media.attached_pic

FinishedReading_Mutant ==
    IF IsVideoOpened = FALSE /\ IsAudioOpened = FALSE
    THEN FALSE
    ELSE media.finished_reading
         /\ ~(IsVideoOpened /\ VideoQueue_size(video_fifo) > 0)

FinishedReading ==
    IF IsVideoOpened = FALSE /\ IsAudioOpened = FALSE
    THEN FALSE
    ELSE IF media.finished_reading
         THEN LET video_finished == ~(IsVideoOpened /\ VideoQueue_size(video_fifo) > 0)
                  audio_finished == ~(IsAudioOpened /\ AudioQueue_size(audio_fifo) > 0)
              IN  video_finished /\ audio_finished
         ELSE FALSE

\* the call returns: the host is idle again
Return(h, result) == [h EXCEPT !.pc = "return", !.result = result]

\* the host takes the returned value; the locals of the call are gone
H_Return ==
    /\ Alive /\ host.pc = "return"
    /\ host' = [Host_new EXCEPT !.seeks = host.seeks]
    /\ UNCHANGED <<video_fifo, audio_fifo, media, worker, callback, q_call>>

\* ma_device_stop / ma_device_uninit return once the running callback has returned
DeviceQuiet == media.device_started => callback.pc = "idle"

\* bool FinishedReading()
H_FinishedReading ==
    /\ Alive /\ host.pc = "idle"
    /\ host' = [Return(host, "None") EXCEPT
                   !.op = "FinishedReading", !.fr_ret = FinishedReading]
    /\ UNCHANGED <<video_fifo, audio_fifo, media, worker, callback, q_call>>

Pause_Mutant(m) ==
    [m EXCEPT !.is_paused = TRUE,
              !.device_started = IF m.audio_opened THEN FALSE ELSE @]

\* void Pause()
Pause(m) ==
    IF (m.audio_opened \/ m.video_opened) = FALSE THEN m
    ELSE IF m.is_paused THEN m
    ELSE [m EXCEPT !.is_paused = TRUE,
                   !.device_started = IF m.audio_opened THEN FALSE ELSE @]

Play_Mutant(m) == m

Play(m) ==
    IF (m.audio_opened \/ m.video_opened) = FALSE THEN m
    ELSE IF m.is_paused = FALSE THEN m
    ELSE [m EXCEPT !.is_paused = FALSE,
                   !.device_started = IF m.audio_opened THEN TRUE ELSE @]

H_Pause ==
    /\ Alive /\ host.pc = "idle" /\ DeviceQuiet
    /\ media' = Pause(media)
    /\ host' = host
    /\ UNCHANGED <<video_fifo, audio_fifo, worker, callback, q_call>>

H_Play ==
    /\ Alive /\ host.pc = "idle"
    /\ media' = Play(media)
    /\ host' = host
    /\ UNCHANGED <<video_fifo, audio_fifo, worker, callback, q_call>>

\* GetVideoFrame() and SkipVideoFrame() up to their test of video_fifo.size()
H_VideoCall ==
    /\ Alive /\ host.pc = "idle"
    /\ \E op \in {"GetVideoFrame", "SkipVideoFrame"} :
          host' = IF IsVideoOpened = FALSE \/ FinishedReading
                  THEN Return([host EXCEPT !.op = op],
                              IF op = "SkipVideoFrame" THEN "Error" ELSE "None")
                  ELSE [host EXCEPT !.pc = "v_size", !.op = op]
    /\ UNCHANGED <<video_fifo, audio_fifo, media, worker, callback, q_call>>

\* if (video_fifo.size() > 0)
H_VideoSize ==
    /\ Alive /\ host.pc = "v_size"
    /\ host' = IF VideoQueue_size(video_fifo) > 0
               THEN [host EXCEPT !.pc = IF host.op = "GetVideoFrame"
                                        THEN "v_front" ELSE "v_pop"]
               ELSE Return(host, IF host.op = "SkipVideoFrame" THEN "Error" ELSE "None")
    /\ UNCHANGED <<video_fifo, audio_fifo, media, worker, callback, q_call>>

\* AVFrame* frame_ref = video_fifo.front();
H_VideoFront ==
    /\ Alive /\ host.pc = "v_front"
    /\ host' = [host EXCEPT !.pc = "v_convert",
                   !.slot = VideoQueue_front(video_fifo),
                   !.got = video_fifo.data[VideoQueue_front(video_fifo)]]
    /\ UNCHANGED <<video_fifo, audio_fifo, media, worker, callback, q_call>>

\* ConvertFrameToRGBASprite(frame_ref, video_frame.Sprite()): reads the slot
H_VideoConvert ==
    /\ Alive /\ host.pc = "v_convert"
    /\ media' = [media EXCEPT !.video_frame = video_fifo.data[host.slot]]
    /\ host' = [host EXCEPT !.pc = "v_pop"]
    /\ UNCHANGED <<video_fifo, audio_fifo, worker, callback, q_call>>

\* video_fifo.pop(); host.popped is the frame the pop released
H_VideoPop ==
    /\ Alive /\ host.pc = "v_pop"
    /\ host' = [host EXCEPT !.pc = "v_notify",
                   !.popped = IF VideoQueue_size(video_fifo) > 0
                              THEN video_fifo.data[VideoQueue_front(video_fifo)]
                              ELSE EmptyFrame]
    /\ video_fifo' = VideoQueue_pop(video_fifo)
    /\ UNCHANGED <<audio_fifo, media, worker, callback, q_call>>

\* conditional.notify_one();
H_VideoNotify ==
    /\ Alive /\ host.pc = "v_notify"
    /\ worker' = notify_one(worker)
    /\ host' = Return(host, IF host.op = "SkipVideoFrame" THEN "Success" ELSE "None")
    /\ UNCHANGED <<video_fifo, audio_fifo, media, callback, q_call>>

---------------------------------------------------------------------------
(* StartDecodingThread / StopDecodingThread *)

frame_loader_joinable(w) == w.pc # "none"

\* assigning a std::thread to a joinable frame_loader calls std::terminate()
StartDecodingThread_media(m, w) ==
    [m EXCEPT !.keep_loading = TRUE, !.finished_reading = FALSE,
              !.terminated = frame_loader_joinable(w)]

StartDecodingThread_worker_Mutant(w) == w

StartDecodingThread_worker(w) ==
    IF frame_loader_joinable(w) THEN w ELSE [Worker_new EXCEPT !.pc = "start"]

\* keep_loading = false; finished_reading = true; conditional.notify_one();
H_StopSignal ==
    /\ Alive /\ host.pc = "stop_signal"
    /\ media' = [media EXCEPT !.keep_loading = FALSE, !.finished_reading = TRUE]
    /\ worker' = notify_one(worker)
    /\ host' = [host EXCEPT !.pc = "stop_join"]
    /\ UNCHANGED <<video_fifo, audio_fifo, callback, q_call>>

JoinReturns_Mutant(w) == TRUE

\* if (frame_loader.joinable()) frame_loader.join(): returns once the thread function returned
JoinReturns(w) == frame_loader_joinable(w) => w.pc = "exited"

H_StopJoin ==
    /\ Alive /\ host.pc = "stop_join"
    /\ JoinReturns(worker)
    /\ worker' = IF worker.pc = "exited" THEN Worker_new ELSE worker
    /\ host' = [host EXCEPT !.pc = IF host.op = "Seek" THEN "seek_frame" ELSE "close_file"]
    /\ UNCHANGED <<video_fifo, audio_fifo, media, callback, q_call>>

---------------------------------------------------------------------------
(* Media::Close *)

H_Close ==
    /\ Alive /\ host.pc = "idle"
    /\ host' = [host EXCEPT !.pc = "stop_signal", !.op = "Close"]
    /\ UNCHANGED <<video_fifo, audio_fifo, media, worker, callback, q_call>>

\* CloseFile(); CloseVideo(); CloseAudio();
H_CloseFile ==
    /\ Alive /\ host.pc = "close_file" /\ DeviceQuiet
    /\ media' = [media EXCEPT !.file_open = FALSE,
                              !.attached_pic = FALSE, !.video_opened = FALSE,
                              !.video_frame = EmptyFrame,
                              !.device_started = FALSE, !.audio_opened = FALSE]
    /\ video_fifo' = VideoQueue_free(VideoQueue_clear(video_fifo))
    /\ audio_fifo' = AudioQueue_free(AudioQueue_clear(audio_fifo))
    /\ host' = IF host.op = "Open" THEN [host EXCEPT !.pc = "open_file"]
               ELSE Return(host, "None")
    /\ UNCHANGED <<worker, callback, q_call>>

---------------------------------------------------------------------------
(* Media::Seek and Media::AdjustSeekedPosition *)

\* Seek(new_time) up to StopDecodingThread()
H_Seek ==
    /\ Alive /\ host.pc = "idle" /\ DeviceQuiet
    /\ host.seeks < MaxSeeks
    /\ IF (IsVideoOpened \/ IsAudioOpened) = FALSE
       THEN /\ host' = Return([host EXCEPT !.op = "Seek"], "Error")
            /\ media' = media
       ELSE /\ host' = [host EXCEPT !.pc = "stop_signal", !.op = "Seek",
                           !.seeks = @ + 1, !.result = "Success"]
            /\ media' = Pause(media)
    /\ UNCHANGED <<video_fifo, audio_fifo, worker, callback, q_call>>

\* av_seek_frame fails: nothing is cleared
H_SeekFrameFails ==
    /\ Alive /\ host.pc = "seek_frame"
    /\ host' = [host EXCEPT !.pc = "seek_start", !.result = "Error"]
    /\ UNCHANGED <<video_fifo, audio_fifo, media, worker, callback, q_call>>

\* av_seek_frame(..., new_time, AVSEEK_FLAG_BACKWARD) succeeds: the demuxer is
\* positioned on a packet at or before new_time (a packet timestamp, the argument
\* of Seek, first used here), and both queues are cleared
H_SeekFrame ==
    /\ Alive /\ host.pc = "seek_frame"
    /\ \E new_time \in 1..MaxPackets :
         \E p \in 0..(new_time - 1) :
            /\ media' = [media EXCEPT !.read_pos = p]
            /\ host' = [host EXCEPT !.pc = "seek_adjust", !.wanted = new_time,
                                    !.video_seeked = ~IsVideoOpened,
                                    !.audio_seeked = ~IsAudioOpened]
    /\ video_fifo' = IF IsVideoOpened THEN VideoQueue_clear(video_fifo) ELSE video_fifo
    /\ audio_fifo' = IF IsAudioOpened THEN AudioQueue_clear(audio_fifo) ELSE audio_fifo
    /\ UNCHANGED <<worker, callback, q_call>>

\* video_seeked && audio_seeked: the clock baseline is set and the loop ends
H_AdjustDone ==
    /\ Alive /\ host.pc = "seek_adjust"
    /\ host.video_seeked /\ host.audio_seeked
    /\ media' = IF IsVideoOpened
                THEN [media EXCEPT
                        !.last_video_pts = video_fifo.data[VideoQueue_front(video_fifo)],
                        !.delta_time_accumulator = video_fifo.data[VideoQueue_front(video_fifo)]]
                ELSE media
    /\ host' = [host EXCEPT !.pc = "seek_start"]
    /\ UNCHANGED <<video_fifo, audio_fifo, worker, callback, q_call>>

\* av_read_frame returns end of file or an error: the loop ends, the result stays Success
H_AdjustReadEnd ==
    /\ Alive /\ host.pc = "seek_adjust"
    /\ ~(host.video_seeked /\ host.audio_seeked)
    /\ host' = [host EXCEPT !.pc = "seek_start"]
    /\ UNCHANGED <<video_fifo, audio_fifo, media, worker, callback, q_call>>

\* the video queue before the packet is decoded: a saturated queue loses its oldest frame
AdjustEvict(q) ==
    IF VideoQueue_capacity(q) - 1 = VideoQueue_size(q) THEN VideoQueue_pop(q) ELSE q

\* one video packet of the loop; got_frame: the decoder returned a frame
H_AdjustVideo ==
    /\ Alive /\ host.pc = "seek_adjust"
    /\ ~(host.video_seeked /\ host.audio_seeked)
    /\ media.read_pos < MaxPackets /\ IsVideoOpened
    /\ media' = [media EXCEPT !.read_pos = @ + 1]
    /\ \E got_frame \in BOOLEAN :
         LET pts == media.read_pos + 1
             q1  == AdjustEvict(video_fifo)
             q2  == [q1 EXCEPT !.data[VideoQueue_back(q1)] =
                                   IF got_frame THEN pts ELSE EmptyFrame]
             accept == got_frame /\ pts >= host.wanted
         IN  /\ video_fifo' = IF accept THEN VideoQueue_push(q2) ELSE q2
             /\ host' = [host EXCEPT !.video_seeked = @ \/ accept,
                              !.baseline = IF accept /\ ~host.video_seeked
                                           THEN pts ELSE @]
    /\ UNCHANGED <<audio_fifo, worker, callback, q_call>>

\* one audio packet of the loop; n: samples of the frame it decodes to (0: no frame)
H_AdjustAudio ==
    /\ Alive /\ host.pc = "seek_adjust"
    /\ ~(host.video_seeked /\ host.audio_seeked)
    /\ media.read_pos < MaxPackets /\ IsAudioOpened
    /\ \E n \in 0..MaxFrameSamples :
         LET pts == media.read_pos + 1
             accept == n > 0 /\ pts >= host.wanted
             first == accept /\ host.audio_seeked = FALSE
         IN  /\ audio_fifo' = IF accept THEN AudioQueue_push(audio_fifo, Block(pts, n))
                              ELSE audio_fifo
             /\ media' = [media EXCEPT
                    !.read_pos = @ + 1,
                    !.audio_time = IF first THEN pts ELSE @,
                    !.audio_frames_consumed = IF first THEN pts * audio_sample_rate ELSE @]
             /\ host' = [host EXCEPT !.audio_seeked = @ \/ accept]
    /\ UNCHANGED <<video_fifo, worker, callback, q_call>>

\* a packet of a stream that is not open is dropped
H_AdjustOther ==
    /\ Alive /\ host.pc = "seek_adjust"
    /\ ~(host.video_seeked /\ host.audio_seeked)
    /\ media.read_pos < MaxPackets /\ ~(IsVideoOpened /\ IsAudioOpened)
    /\ media' = [media EXCEPT !.read_pos = @ + 1]
    /\ UNCHANGED <<video_fifo, audio_fifo, host, worker, callback, q_call>>

\* a decode step fails: OLC_MEDIA_ASSERT returns Result::Error from AdjustSeekedPosition
H_AdjustDecodeError ==
    /\ Alive /\ host.pc = "seek_adjust"
    /\ ~(host.video_seeked /\ host.audio_seeked)
    /\ media.read_pos < MaxPackets
    /\ media' = [media EXCEPT !.read_pos = @ + 1]
    /\ host' = [host EXCEPT !.pc = "seek_start", !.result = "Error"]
    /\ UNCHANGED <<video_fifo, audio_fifo, worker, callback, q_call>>

\* StartDecodingThread(); Play(); return result;
H_SeekStart ==
    /\ Alive /\ host.pc = "seek_start"
    /\ media' = Play(StartDecodingThread_media(media, worker))
    /\ worker' = StartDecodingThread_worker(worker)
    /\ host' = Return(host, host.result)
    /\ UNCHANGED <<video_fifo, audio_fifo, callback, q_call>>

---------------------------------------------------------------------------
(* Media::Open *)

ApplySettings_Mutant(preloaded_frames_scale) == "Success"

\* OLC_MEDIA_ASSERT(settings.preloaded_frames_scale > 0, ...); return Result::Success;
ApplySettings(preloaded_frames_scale) ==
    IF ~(preloaded_frames_scale > 0) THEN "Error" ELSE "Success"

\* Open up to OpenFile: ApplySettings, and Close() if media is open
H_Open ==
    /\ Alive /\ host.pc = "idle"
    /\ \E preloaded_frames_scale \in 0..1 :
          host' = IF ApplySettings(preloaded_frames_scale) # "Success"
                  THEN Return([host EXCEPT !.op = "Open",
                                           !.scale = preloaded_frames_scale],
                              ApplySettings(preloaded_frames_scale))
                  ELSE [host EXCEPT !.op = "Open",
                                    !.scale = preloaded_frames_scale,
                                    !.closed_paused = (IsVideoOpened \/ IsAudioOpened)
                                                          /\ IsPaused,
                                    !.pc = IF IsVideoOpened \/ IsAudioOpened
                                           THEN "stop_signal" ELSE "open_file"]
    /\ UNCHANGED <<video_fifo, audio_fifo, media, worker, callback, q_call>>

\* OpenFile fails
H_OpenFileFails ==
    /\ Alive /\ host.pc = "open_file"
    /\ media' = [media EXCEPT !.file_open = FALSE]
    /\ host' = Return(host, "Error")
    /\ UNCHANGED <<video_fifo, audio_fifo, worker, callback, q_call>>

\* InitVideo succeeded with a video stream, an attached picture (album art) or not
InitVideo(m, pic) ==
    [m EXCEPT !.attached_pic = pic, !.video_opened = TRUE, !.video_frame = EmptyFrame,
              !.delta_time_accumulator = 0, !.last_video_pts = 0]

InitAudio_Mutant(m) == [m EXCEPT !.device_started = TRUE, !.audio_opened = TRUE]

\* InitAudio succeeded with an audio stream
InitAudio(m) ==
    [m EXCEPT !.audio_frames_consumed = 0, !.audio_time = 0,
              !.device_started = TRUE, !.audio_opened = TRUE]

\* OpenFile succeeds; vres / ares: what InitVideo / InitAudio do
\* ("none": open_video / open_audio is false or the file has no such stream,
\*  "error": an assertion fails, "ok": the stream is opened); capacity: what
\* video_fifo is initialised for (HasAlbumArt() is still false when InitVideo
\* chooses it, attached_pic being assigned afterwards)
H_OpenFile ==
    /\ Alive /\ host.pc = "open_file"
    /\ \E vres \in {"none", "error", "ok"}, ares \in {"none", "error", "ok"},
          capacity \in 2..MaxVideoCapacity, pic \in BOOLEAN :
         /\ vres # "ok" => (capacity = 2 /\ pic = FALSE)
         /\ vres = "error" => ares = "none"
         /\ LET m0 == [media EXCEPT !.file_open = TRUE, !.read_pos = 0, !.is_paused = FALSE]
                m1 == IF vres = "ok" THEN InitVideo(m0, pic) ELSE m0
                m2 == IF ares = "ok" THEN InitAudio(m1) ELSE m1
                failed == vres = "error" \/ ares = "error"
            IN  /\ video_fifo' = IF vres = "ok" THEN VideoQueue_init(video_fifo, capacity)
                                 ELSE video_fifo
                /\ audio_fifo' = IF ares = "ok"
                                 THEN AudioQueue_init(audio_fifo, PipelineAudioCap)
                                 ELSE audio_fifo
                /\ media' = IF failed THEN m2 ELSE StartDecodingThread_media(m2, worker)
                /\ worker' = IF failed THEN worker ELSE StartDecodingThread_worker(worker)
                /\ host' = Return(host, IF failed THEN "Error" ELSE "Success")
    /\ UNCHANGED <<callback, q_call>>

---------------------------------------------------------------------------
(* The audio device callback: Media::GetAudioFrame(&pOutput, frameCount) *)

\* int samples_read = audio_fifo.pop(output, sample_count);
CB_Pop ==
    /\ Alive /\ callback.pc = "idle"
    /\ media.device_started
    /\ \E sample_count \in 1..MaxCallbackSamples :
         /\ callback' = [pc |-> "notify",
                         samples_read |-> AudioQueue_pop_count(audio_fifo, sample_count)]
         /\ audio_fifo' = AudioQueue_pop(audio_fifo, sample_count)
    /\ UNCHANGED <<video_fifo, media, worker, host, q_call>>

\* conditional.notify_one(); audio_frames_consumed += samples_read; audio_time = ...
CB_Notify ==
    /\ Alive /\ callback.pc = "notify"
    /\ worker' = notify_one(worker)
    /\ media' = IF callback.samples_read < 0 THEN media
                ELSE [media EXCEPT
                        !.audio_frames_consumed = @ + callback.samples_read,
                        !.audio_time = (media.audio_frames_consumed + callback.samples_read)
                                           \div audio_sample_rate]
    /\ callback' = [pc |-> "idle", samples_read |-> 0]
    /\ UNCHANGED <<video_fifo, audio_fifo, host, q_call>>

---------------------------------------------------------------------------
(* The pipeline *)

HostCall ==
    \/ H_FinishedReading \/ H_Pause \/ H_Play \/ H_VideoCall
    \/ H_Close \/ H_Seek \/ H_Open

HostStep ==
    \/ H_Return \/ H_VideoSize \/ H_VideoFront \/ H_VideoConvert \/ H_VideoPop \/ H_VideoNotify
    \/ H_StopSignal \/ H_StopJoin \/ H_CloseFile
    \/ H_SeekFrameFails \/ H_SeekFrame \/ H_AdjustDone \/ H_AdjustReadEnd
    \/ H_AdjustVideo \/ H_AdjustAudio \/ H_AdjustOther \/ H_AdjustDecodeError
    \/ H_SeekStart \/ H_OpenFileFails \/ H_OpenFile

CallbackStep == CB_Pop \/ CB_Notify

Next == HostCall \/ HostStep \/ WorkerStep \/ W_SpuriousWake \/ CallbackStep

Spec == Init /\ [][Next]_vars

---------------------------------------------------------------------------
(* The scheduler runs every thread that can run: a thread that is not       *)
(* blocked takes its next step, an audio device that is started again and   *)
(* again keeps calling back, and the host keeps polling for video frames.   *)
(* A spurious wake-up is allowed and never promised.                        *)

FairSpec ==
    /\ Spec
    /\ WF_vars(WorkerStep)
    /\ WF_vars(HostStep)
    /\ SF_vars(CallbackStep)
    /\ SF_vars(H_VideoCall)

---------------------------------------------------------------------------
(* Media::VideoQueue on its own: init(capacity), then any sequence of calls *)

InitVQ ==
    /\ \E capacity \in 2..MaxVideoCapacity :
          /\ video_fifo = VideoQueue_init(VideoQueue_new, capacity)
          /\ q_call = [NoCall EXCEPT !.op = "init", !.arg = capacity]
    /\ audio_fifo = AudioQueue_new
    /\ media = Media_new(FALSE)
    /\ worker = Worker_new
    /\ host = Host_new
    /\ callback = Callback_new

\* the producer fills the slot back() returns with frame f
Q_Fill ==
    /\ \E f \in 1..MaxFrameId :
          video_fifo' = [video_fifo EXCEPT !.data[VideoQueue_back(video_fifo)] = f]
    /\ q_call' = [q_call EXCEPT !.op = "back", !.pre = VideoQueue_size(video_fifo)]
    /\ UNCHANGED <<audio_fifo, media, worker, host, callback>>

Q_Push ==
    /\ VideoQueue_size(video_fifo) < VideoQueue_capacity(video_fifo) + MaxOverfill
    /\ video_fifo' = VideoQueue_push(video_fifo)
    /\ q_call' = [q_call EXCEPT !.op = "push", !.pre = VideoQueue_size(video_fifo)]
    /\ UNCHANGED <<audio_fifo, media, worker, host, callback>>

Q_Pop ==
    /\ video_fifo' = VideoQueue_pop(video_fifo)
    /\ q_call' = [q_call EXCEPT !.op = "pop", !.pre = VideoQueue_size(video_fifo)]
    /\ UNCHANGED <<audio_fifo, media, worker, host, callback>>

Q_Clear ==
    /\ video_fifo' = VideoQueue_clear(video_fifo)
    /\ q_call' = [q_call EXCEPT !.op = "clear", !.pre = VideoQueue_size(video_fifo)]
    /\ UNCHANGED <<audio_fifo, media, worker, host, callback>>

NextVQ == Q_Fill \/ Q_Push \/ Q_Pop \/ Q_Clear

SpecVQ == InitVQ /\ [][NextVQ]_vars

---------------------------------------------------------------------------
(* Media::AudioQueue on its own: init(capacity), then any sequence of calls. *)
(* The samples of the k-th push are <<k, 1>>, <<k, 2>>, ...                  *)

InitAQ ==
    /\ \E capacity \in 1..MaxAudioCapacity :
          /\ audio_fifo = AudioQueue_init(AudioQueue_new, capacity)
          /\ q_call = [NoCall EXCEPT !.op = "init", !.arg = capacity, !.init = capacity]
    /\ video_fifo = VideoQueue_new
    /\ media = Media_new(FALSE)
    /\ worker = Worker_new
    /\ host = Host_new
    /\ callback = Callback_new

Batch(k, n) == [i \in 1..n |-> <<k, i>>]

A_Push ==
    /\ q_call.batch < MaxBatches
    /\ \E n \in 1..MaxPushSamples :
         /\ audio_fifo' = AudioQueue_push(audio_fifo, Batch(q_call.batch + 1, n))
         /\ q_call' = [q_call EXCEPT !.op = "push", !.arg = n, !.ret = n,
                                     !.pre = AudioQueue_size(audio_fifo),
                                     !.batch = @ + 1]
    /\ UNCHANGED <<video_fifo, media, worker, host, callback>>

A_Pop ==
    /\ \E n \in 0..MaxPushSamples :
         /\ audio_fifo' = AudioQueue_pop(audio_fifo, n)
         /\ q_call' = [q_call EXCEPT !.op = "pop", !.arg = n,
                                     !.ret = AudioQueue_pop_count(audio_fifo, n),
                                     !.out = av_audio_fifo_read_data(audio_fifo, n),
                                     !.pre = AudioQueue_size(audio_fifo)]
    /\ UNCHANGED <<video_fifo, media, worker, host, callback>>

A_Clear ==
    /\ audio_fifo' = AudioQueue_clear(audio_fifo)
    /\ q_call' = [q_call EXCEPT !.op = "clear", !.arg = 0, !.ret = 0,
                                !.pre = AudioQueue_size(audio_fifo)]
    /\ UNCHANGED <<video_fifo, media, worker, host, callback>>

NextAQ == A_Push \/ A_Pop \/ A_Clear

SpecAQ == InitAQ /\ [][NextAQ]_vars

---------------------------------------------------------------------------
(* The pull API as functions of the state they read and write.  A call     *)
(* returns a record [m, vq, ret]: the Media fields and video_fifo after    *)
(* the call, and what the call returned ("Decal": video_frame.Decal(),     *)
(* "nullptr", or a Result).                                                *)

Media_FinishedReading(m, vq, aq) ==
    IF m.video_opened = FALSE /\ m.audio_opened = FALSE
    THEN FALSE
    ELSE IF m.finished_reading
         THEN LET video_finished == ~(m.video_opened /\ VideoQueue_size(vq) > 0)
                  audio_finished == ~(m.audio_opened /\ AudioQueue_size(aq) > 0)
              IN  video_finished /\ audio_finished
         ELSE FALSE

GetCurrentPlaybackTime(m) ==
    IF m.video_opened THEN m.last_video_pts
    ELSE IF m.audio_opened THEN m.audio_time
    ELSE 0

GetVideoFrame_Mutant(m, vq, aq) ==
    IF m.video_opened = FALSE THEN [m |-> m, vq |-> vq, ret |-> "Decal"]
    ELSE IF Media_FinishedReading(m, vq, aq) THEN [m |-> m, vq |-> vq, ret |-> "Decal"]
    ELSE [m |-> [m EXCEPT !.video_frame = vq.data[VideoQueue_front(vq)]],
          vq |-> VideoQueue_pop(vq), ret |-> "Decal"]

\* olc::Decal* GetVideoFrame(): the front frame is converted into video_frame and popped
GetVideoFrame(m, vq, aq) ==
    IF m.video_opened = FALSE THEN [m |-> m, vq |-> vq, ret |-> "Decal"]
    ELSE IF Media_FinishedReading(m, vq, aq) THEN [m |-> m, vq |-> vq, ret |-> "Decal"]
    ELSE IF VideoQueue_size(vq) > 0
    THEN [m |-> [m EXCEPT !.video_frame = vq.data[VideoQueue_front(vq)]],
          vq |-> VideoQueue_pop(vq), ret |-> "Decal"]
    ELSE [m |-> m, vq |-> vq, ret |-> "Decal"]

SkipVideoFrame(m, vq, aq) ==
    IF m.video_opened = FALSE THEN [m |-> m, vq |-> vq, ret |-> "Error"]
    ELSE IF Media_FinishedReading(m, vq, aq) THEN [m |-> m, vq |-> vq, ret |-> "Error"]
    ELSE IF VideoQueue_size(vq) > 0
    THEN [m |-> m, vq |-> VideoQueue_pop(vq), ret |-> "Success"]
    ELSE [m |-> m, vq |-> vq, ret |-> "Error"]

\* the slot of the front frame, -1 for nullptr
PeekFrame(vq) == IF VideoQueue_size(vq) > 0 THEN VideoQueue_front(vq) ELSE -1

CalculateVideoPts(vq, frame) == vq.data[frame]

TimeReference_Mutant(m, delta_time) == m.delta_time_accumulator + delta_time

\* the reference time GetVideoFrame(delta_time) synchronises to
TimeReference(m, delta_time) ==
    IF m.audio_opened THEN m.audio_time ELSE m.delta_time_accumulator + delta_time

\* the while (true) loop of GetVideoFrame(delta_time) and the call after it
RECURSIVE SyncLoop(_, _, _, _)
SyncLoop(m, vq, aq, time_reference) ==
    LET next_frame == PeekFrame(vq)
    IN  IF next_frame = -1 THEN [m |-> m, vq |-> vq, ret |-> "Decal"]
        ELSE LET m1 == [m EXCEPT !.last_video_pts = CalculateVideoPts(vq, next_frame)]
             IN  IF time_reference <= m1.last_video_pts
                 THEN GetVideoFrame(m1, vq, aq)
                 ELSE LET s == SkipVideoFrame(m1, vq, aq)
                      IN  SyncLoop(s.m, s.vq, aq, time_reference)

\* olc::Decal* GetVideoFrame(float delta_time)
GetVideoFrame_delta_time(m, vq, aq, delta_time) ==
    IF m.video_opened = FALSE THEN [m |-> m, vq |-> vq, ret |-> "nullptr"]
    ELSE IF Media_FinishedReading(m, vq, aq) THEN GetVideoFrame(m, vq, aq)
    ELSE IF m.is_paused THEN [m |-> m, vq |-> vq, ret |-> "Decal"]
    ELSE IF m.attached_pic THEN GetVideoFrame(m, vq, aq)
    ELSE LET time_reference == TimeReference(m, delta_time)
             m1 == IF m.audio_opened THEN m
                   ELSE [m EXCEPT !.delta_time_accumulator = @ + delta_time]
         IN  IF time_reference < m1.last_video_pts
             THEN [m |-> m1, vq |-> vq, ret |-> "Decal"]
             ELSE SyncLoop(m1, vq, aq, time_reference)

\* the path of GetVideoFrame(delta_time) that compares timestamps with the reference time
TimeDriven(m, vq, aq) ==
    /\ m.video_opened /\ ~Media_FinishedReading(m, vq, aq)
    /\ ~m.is_paused /\ ~m.attached_pic

\* what GetAudioFrame can be handed as output: a null void**, a void** that
\* points at a null buffer, a void** that points at a buffer
Outputs == {"nullptr", "null buffer", "buffer"}

\* if (!output || !(*output) || sample_count < 0) return -1;
BadParameters(output, sample_count) == output # "buffer" \/ sample_count < 0

\* int GetAudioFrame(void** output, int sample_count): the value returned
GetAudioFrame_return(aq, output, sample_count) ==
    LET samples_read == AudioQueue_pop_count(aq, sample_count)
    IN  IF BadParameters(output, sample_count) \/ samples_read < 0 THEN -1
        ELSE samples_read

\* int GetAudioFrame(void** output, int sample_count): the Media fields after the call
GetAudioFrame(m, aq, output, sample_count) ==
    LET samples_read == AudioQueue_pop_count(aq, sample_count)
    IN  IF BadParameters(output, sample_count) \/ samples_read < 0 THEN m
        ELSE [m EXCEPT !.audio_frames_consumed = @ + samples_read,
                       !.audio_time = (m.audio_frames_consumed + samples_read)
                                          \div audio_sample_rate]

---------------------------------------------------------------------------
(* The decoding thread's water marks and video route as functions *)

max_video_queue_size_Mutant(m, vq) ==
    IF m.attached_pic THEN 1 ELSE VideoQueue_capacity(vq)

\* "-1" so that the frame handed out by GetVideoFrame() is not overwritten
max_video_queue_size(m, vq) ==
    IF m.attached_pic THEN 1 ELSE VideoQueue_capacity(vq) - 1

min_video_queue_size(m, vq) ==
    IF m.attached_pic THEN 1 ELSE Max(max_video_queue_size(m, vq) \div 2, 1)

min_audio_queue_size(aq) == Max(AudioQueue_capacity(aq) \div 2, 1)

\* the condition that ends the wait phase and lets the thread read a packet
WaitPhaseOver(m, vq, aq) ==
    \/ ~m.attached_pic /\ m.video_opened
         /\ VideoQueue_size(vq) <= min_video_queue_size(m, vq)
    \/ m.audio_opened /\ AudioQueue_size(aq) <= min_audio_queue_size(aq)

\* a video packet with timestamp pts goes through the video route
VideoRoute(m, vq, pts, got_frame) ==
    LET q1 == IF max_video_queue_size(m, vq) = VideoQueue_size(vq)
              THEN VideoQueue_pop(vq) ELSE vq
        q2 == [q1 EXCEPT !.data[VideoQueue_back(q1)] =
                             IF got_frame THEN pts ELSE EmptyFrame]
    IN  IF got_frame THEN VideoQueue_push(q2) ELSE q2

---------------------------------------------------------------------------
(* Playback: media is open, the decoding thread commits whole packets and  *)
(* the host makes whole pull calls, in any order.  host records the call   *)
(* that returned last; q_call.op names the last step, q_call.arg the       *)
(* reference time or sample count it used, q_call.pre the size of          *)
(* video_fifo before it, q_call.ret whether a video packet committed a     *)
(* frame or the delta_time GetVideoFrame(delta_time) was called with, and  *)
(* q_call.batch counts the frames committed since the last step that       *)
(* popped on the consumer side.                                            *)

InitPlay ==
    /\ \E vo \in BOOLEAN, ao \in BOOLEAN, pic \in BOOLEAN,
          capacity \in 2..MaxVideoCapacity :
         /\ vo \/ ao
         /\ ~vo => (pic = FALSE /\ capacity = 2)
         /\ LET m0 == [Media_new(FALSE) EXCEPT !.file_open = TRUE]
                m1 == IF vo THEN InitVideo(m0, pic) ELSE m0
            IN  media = IF ao THEN InitAudio(m1) ELSE m1
         /\ video_fifo = IF vo THEN VideoQueue_init(VideoQueue_new, capacity)
                         ELSE VideoQueue_new
         /\ audio_fifo = IF ao THEN AudioQueue_init(AudioQueue_new, PipelineAudioCap)
                         ELSE AudioQueue_new
         /\ q_call = [NoCall EXCEPT !.op = "Open", !.init = capacity]
    /\ worker = Worker_new
    /\ host = Host_new
    /\ callback = Callback_new

Reading ==
    /\ Alive /\ ~media.finished_reading /\ media.read_pos < MaxPackets
    /\ WaitPhaseOver(media, video_fifo, audio_fifo)

\* the next packet is a video packet
D_Video ==
    /\ Reading /\ media.video_opened
    /\ \E got_frame \in BOOLEAN :
         /\ video_fifo' = VideoRoute(media, video_fifo, media.read_pos + 1, got_frame)
         /\ q_call' = [q_call EXCEPT !.op = "video packet", !.arg = media.read_pos + 1,
                           !.pre = VideoQueue_size(video_fifo),
                           !.ret = IF got_frame THEN 1 ELSE 0,
                           !.batch = IF got_frame THEN @ + 1 ELSE @]
    /\ media' = [media EXCEPT !.read_pos = @ + 1]
    /\ UNCHANGED <<audio_fifo, worker, host, callback>>

\* the next packet is an audio packet
D_Audio ==
    /\ Reading /\ media.audio_opened
    /\ \E n \in 1..MaxFrameSamples :
         audio_fifo' = AudioQueue_push(audio_fifo, Block(media.read_pos + 1, n))
    /\ media' = [media EXCEPT !.read_pos = @ + 1]
    /\ q_call' = [q_call EXCEPT !.op = "audio packet", !.arg = media.read_pos + 1,
                      !.pre = VideoQueue_size(video_fifo)]
    /\ UNCHANGED <<video_fifo, worker, host, callback>>

\* the next packet belongs to a stream that is not open
D_Other ==
    /\ Reading /\ ~(media.video_opened /\ media.audio_opened)
    /\ media' = [media EXCEPT !.read_pos = @ + 1]
    /\ q_call' = [q_call EXCEPT !.op = "other packet", !.arg = media.read_pos + 1,
                      !.pre = VideoQueue_size(video_fifo)]
    /\ UNCHANGED <<video_fifo, audio_fifo, worker, host, callback>>

\* av_read_frame returns end of file: finished_reading = true
D_End ==
    /\ Alive /\ ~media.finished_reading
    /\ WaitPhaseOver(media, video_fifo, audio_fifo)
    /\ media' = [media EXCEPT !.finished_reading = TRUE]
    /\ q_call' = [q_call EXCEPT !.op = "end of file", !.arg = 0,
                      !.pre = VideoQueue_size(video_fifo)]
    /\ UNCHANGED <<video_fifo, audio_fifo, worker, host, callback>>

\* what a pull call leaves in q_call and host
Called(op, arg, r) ==
    /\ q_call' = [q_call EXCEPT !.op = op, !.arg = arg,
                      !.pre = VideoQueue_size(video_fifo),
                      !.batch = IF VideoQueue_size(r.vq) < VideoQueue_size(video_fifo)
                                THEN 0 ELSE @]
    /\ host' = Return([Host_new EXCEPT !.op = op], r.ret)

U_GetVideoFrameDt ==
    /\ Alive
    /\ \E delta_time \in 0..MaxDeltaTime :
         /\ media.delta_time_accumulator + delta_time <= MaxClock
         /\ LET r == GetVideoFrame_delta_time(media, video_fifo, audio_fifo, delta_time)
            IN  /\ media' = r.m
                /\ video_fifo' = r.vq
                /\ q_call' = [q_call EXCEPT
                       !.op = "GetVideoFrame(delta_time)",
                       !.arg = TimeReference(media, delta_time),
                       !.ret = delta_time,
                       !.pre = VideoQueue_size(video_fifo),
                       !.batch = IF VideoQueue_size(r.vq) < VideoQueue_size(video_fifo)
                                 THEN 0 ELSE @]
                /\ host' = Return([Host_new EXCEPT !.op = "GetVideoFrame(delta_time)"],
                                  r.ret)
    /\ UNCHANGED <<audio_fifo, worker, callback>>

U_GetVideoFrame ==
    /\ Alive
    /\ LET r == GetVideoFrame(media, video_fifo, audio_fifo)
       IN  /\ media' = r.m
           /\ video_fifo' = r.vq
           /\ Called("GetVideoFrame()", 0, r)
    /\ UNCHANGED <<audio_fifo, worker, callback>>

U_SkipVideoFrame ==
    /\ Alive
    /\ LET r == SkipVideoFrame(media, video_fifo, audio_fifo)
       IN  /\ media' = r.m
           /\ video_fifo' = r.vq
           /\ Called("SkipVideoFrame", 0, r)
    /\ UNCHANGED <<audio_fifo, worker, callback>>

\* GetAudioFrame called by the host or by the device callback (device started).
\* The function does not test IsAudioOpened(): with no audio stream open
\* audio_fifo holds a null AVAudioFifo*, and av_audio_fifo_read reads
\* af->nb_samples through it, which faults.
U_GetAudioFrame ==
    /\ Alive
    /\ \E output \in Outputs, sample_count \in -1..MaxCallbackSamples :
         /\ q_call' = [q_call EXCEPT !.op = "GetAudioFrame", !.arg = sample_count,
                           !.pre = VideoQueue_size(video_fifo),
                           !.ret = GetAudioFrame_return(audio_fifo, output, sample_count),
                           !.out = <<output>>]
         /\ IF BadParameters(output, sample_count)
            THEN UNCHANGED <<media, audio_fifo>>
            ELSE IF audio_fifo.alloc
            THEN /\ media' = GetAudioFrame(media, audio_fifo, output, sample_count)
                 /\ audio_fifo' = AudioQueue_pop(audio_fifo, sample_count)
            ELSE /\ media' = [media EXCEPT !.terminated = TRUE]
                 /\ UNCHANGED audio_fifo
         /\ host' = [Host_new EXCEPT !.op = "GetAudioFrame"]
    /\ UNCHANGED <<video_fifo, worker, callback>>

U_Pause ==
    /\ Alive
    /\ media' = Pause(media)
    /\ q_call' = [q_call EXCEPT !.op = "Pause", !.arg = 0,
                      !.pre = VideoQueue_size(video_fifo)]
    /\ host' = [Host_new EXCEPT !.op = "Pause"]
    /\ UNCHANGED <<video_fifo, audio_fifo, worker, callback>>

U_Play ==
    /\ Alive
    /\ media' = Play(media)
    /\ q_call' = [q_call EXCEPT !.op = "Play", !.arg = 0,
                      !.pre = VideoQueue_size(video_fifo)]
    /\ host' = [Host_new EXCEPT !.op = "Play"]
    /\ UNCHANGED <<video_fifo, audio_fifo, worker, callback>>

NextPlay ==
    \/ D_Video \/ D_Audio \/ D_Other \/ D_End
    \/ U_GetVideoFrameDt \/ U_GetVideoFrame \/ U_SkipVideoFrame
    \/ U_GetAudioFrame \/ U_Pause \/ U_Play

SpecPlay == InitPlay /\ [][NextPlay]_vars

---------------------------------------------------------------------------
(* Properties of Media::VideoQueue, checked under SpecVQ *)

\* C1 (as stated): for every sequence of push() and pop() calls after
\* init(capacity), size() never exceeds capacity().
C1_SizeNeverExceedsCapacity ==
    VideoQueue_size(video_fifo) <= VideoQueue_capacity(video_fifo)

\* C1 (amended): a push() made while size() < capacity() leaves
\* size() <= capacity(), so a sequence whose pushes are all made below capacity
\* never exceeds it; and pop() on an empty queue changes neither the size nor
\* either cursor nor any slot.
C1_GuardedPushStaysWithinCapacity ==
    [][ /\ (q_call'.op = "push"
             /\ VideoQueue_size(video_fifo) < VideoQueue_capacity(video_fifo))
           => VideoQueue_size(video_fifo') <= VideoQueue_capacity(video_fifo')
        /\ (q_call'.op = "pop" /\ VideoQueue_size(video_fifo) = 0)
           => video_fifo' = video_fifo ]_vars

\* C1 witness: a push made at size() = capacity() - 1 has filled the queue
C1_GuardedPushFillsQueue ==
    /\ q_call.op = "push"
    /\ q_call.pre = VideoQueue_capacity(video_fifo) - 1
    /\ VideoQueue_size(video_fifo) = VideoQueue_capacity(video_fifo)

---------------------------------------------------------------------------
(* Properties of Media::AudioQueue, checked under SpecAQ *)

\* C8 (as stated): after any push, whatever its size, the queue holds at most
\* the capacity given to init, and capacity() still reports that capacity.
C8_PushKeepsInitCapacity ==
    q_call.op = "push" =>
        /\ AudioQueue_size(audio_fifo) <= q_call.init
        /\ AudioQueue_capacity(audio_fifo) = q_call.init

\* C19 (as stated): a push of more samples than the free space drains exactly
\* (pushed - free) of the oldest samples and appends the pushed ones, so that
\* the queue then holds the most recent samples up to its capacity.
C19_PushDrainsExactlyOverflow ==
    [][ ( /\ A_Push
          /\ q_call'.arg > av_audio_fifo_space(audio_fifo) )
        => LET drained == q_call'.arg - av_audio_fifo_space(audio_fifo)
               old == audio_fifo.samples
           IN  /\ Len(audio_fifo'.samples) = Len(old) - drained + q_call'.arg
               /\ audio_fifo'.samples =
                      SubSeq(old, drained + 1, Len(old))
                          \o Batch(q_call'.batch, q_call'.arg) ]_vars

\* C20: pop(n) copies out the min(n, size()) oldest samples in the order they
\* were pushed, removes exactly those, returns their number, and leaves the
\* remaining samples in order.
C20_PopTakesOldestUpToSize ==
    [][ A_Pop =>
          LET old == audio_fifo.samples
              k == Min(q_call'.arg, Len(old))
          IN  /\ q_call'.ret = k
              /\ q_call'.out = SubSeq(old, 1, k)
              /\ audio_fifo'.samples = SubSeq(old, k + 1, Len(old)) ]_vars

\* C20 witness: a pop asked for more samples than the queue held and returned
\* the samples it held, which came from more than one push
C20_PopReturnedFewerThanAsked ==
    /\ q_call.op = "pop" /\ q_call.pre > 0 /\ q_call.arg > q_call.pre
    /\ q_call.ret = q_call.pre /\ Len(q_call.out) = q_call.pre
    /\ q_call.out[1][1] # q_call.out[Len(q_call.out)][1]

---------------------------------------------------------------------------
(* Properties of the pipeline, checked under Spec and FairSpec *)

\* C2 (as stated): once StopDecodingThread has set keep_loading to false and
\* signalled the condition variable, the decoding thread eventually exits and
\* the join returns, in every interleaving.
C2_StopEventuallyJoins ==
    (host.pc = "stop_join") ~> (host.pc # "stop_join")

\* the decoding thread is in its wait phase
InWaitPhase ==
    worker.pc \in {"chk_video", "chk_audio", "chk_keep", "wait", "waiting", "chk_keep2"}

\* a queue the wait phase looks at is at or below the low-water mark the
\* decoding thread computed for it
LowWater ==
    \/ /\ media.video_opened /\ ~media.attached_pic
       /\ worker.min_video_queue_size >= 0
       /\ VideoQueue_size(video_fifo) <= worker.min_video_queue_size
    \/ /\ media.audio_opened
       /\ worker.min_audio_queue_size >= 0
       /\ AudioQueue_size(audio_fifo) <= worker.min_audio_queue_size

\* C3 (as stated): while no shutdown is requested and the file still has
\* packets, a decoding thread whose video or audio queue is at or below its
\* low-water mark eventually reads the next packet (unless a shutdown is
\* requested or the thread ends first): no wake-up is lost for good.
C3_StarvedWorkerEventuallyReads ==
    (Alive /\ InWaitPhase /\ media.keep_loading /\ media.read_pos < MaxPackets /\ LowWater)
        ~> \/ worker.pc = "read"
           \/ ~media.keep_loading
           \/ worker.pc \in {"exited", "none"}
           \/ ~Alive

\* C4 (as stated): the slot GetVideoFrame() obtained with front() is neither
\* evicted nor overwritten by the decoding thread before GetVideoFrame() pops
\* it, and the frame its pop() releases is the frame it read.
C4_ConsumerSlotUntouched ==
    /\ (host.op = "GetVideoFrame" /\ host.pc \in {"v_convert", "v_pop"})
          => /\ VideoQueue_front(video_fifo) = host.slot
             /\ video_fifo.data[host.slot] = host.got
    /\ (host.op = "GetVideoFrame" /\ host.pc = "v_notify")
          => host.popped = host.got

\* C5: while the host is between the return of StopDecodingThread and
\* StartDecodingThread in Seek (av_seek_frame, the queue clears,
\* AdjustSeekedPosition), or in CloseFile/CloseVideo/CloseAudio of Close, the
\* decoding thread is not running: frame_loader has been joined.
C5_ControllerExcludesWorker ==
    host.pc \in {"seek_frame", "seek_adjust", "seek_start", "close_file"}
        => worker.pc = "none"

\* C5 witness: Seek is about to call av_seek_frame after a decoding thread
\* that had read packets was stopped and joined
C5_SeekAfterWorkerRan ==
    host.pc = "seek_frame" /\ media.read_pos > 0 /\ worker.pc = "none"

\* C6 (as stated): whenever the decoding thread has left its loop, for
\* whatever reason, finished_reading is true.
C6_ExitedWorkerHasFinishedReading ==
    worker.pc = "exited" => media.finished_reading

\* C7 (as stated): a decode error on one packet does not end the decoding
\* thread: the thread function never returns because a decode step failed.
C7_DecodeErrorDoesNotEndWorker ==
    ~(worker.pc = "exited" /\ worker.ret = "Error")

\* what C9 says FinishedReading() returns
C9_Expected ==
    /\ media.video_opened \/ media.audio_opened
    /\ media.finished_reading
    /\ media.video_opened => VideoQueue_size(video_fifo) = 0
    /\ media.audio_opened => AudioQueue_size(audio_fifo) = 0

\* C9: FinishedReading() returns true exactly when at least one stream is
\* open, finished_reading is set, and the queue of every open stream is empty.
C9_FinishedReadingExact ==
    [][ (host.pc = "idle" /\ host'.pc = "return" /\ host'.op = "FinishedReading")
            => (host'.fr_ret = C9_Expected) ]_vars

\* C9 witness: FinishedReading() has returned false after the decoding thread
\* set finished_reading, because an open queue still holds data
C9_FalseWhileQueueHoldsData ==
    /\ host.pc = "return" /\ host.op = "FinishedReading" /\ host.fr_ret = FALSE
    /\ media.finished_reading
    /\ media.audio_opened /\ AudioQueue_size(audio_fifo) > 0
    /\ media.video_opened /\ VideoQueue_size(video_fifo) = 0

\* C10 (as stated): FinishedReading() returns true when no media is open.
C10_TrueWhenNothingOpen ==
    (host.pc = "return" /\ host.op = "FinishedReading"
        /\ ~media.video_opened /\ ~media.audio_opened)
        => host.fr_ret = TRUE

---------------------------------------------------------------------------
(* Properties of playback, checked under SpecPlay *)

\* the frames video_fifo holds, oldest first
QueuedFrames(q) ==
    [i \in 1..VideoQueue_size(q) |->
        q.data[(VideoQueue_front(q) + i - 1) % VideoQueue_capacity(q)]]

\* C11 (as stated): a frame made current by GetVideoFrame(delta_time) on its
\* time-driven path never has a timestamp greater than the reference time of
\* the call.
C11_CurrentFrameNotAfterReference ==
    [][ ( /\ U_GetVideoFrameDt
          /\ TimeDriven(media, video_fifo, audio_fifo)
          /\ media'.video_frame # media.video_frame )
        => media'.video_frame <= q_call'.arg ]_vars

\* C12: when video is open and video_fifo is empty, GetVideoFrame(delta_time)
\* returns the Decal (never nullptr), leaves the frame last presented in
\* video_frame and leaves video_fifo (size, cursors, slots) unchanged.
C12_EmptyQueueKeepsLastFrame ==
    [][ ( /\ U_GetVideoFrameDt
          /\ media.video_opened
          /\ VideoQueue_size(video_fifo) = 0 )
        => ( /\ host'.result = "Decal"
             /\ media'.video_frame = media.video_frame
             /\ video_fifo' = video_fifo ) ]_vars

\* C12 witness: a time-driven GetVideoFrame(delta_time) whose reference time has
\* reached last_video_pts found the queue empty after a frame had been presented
C12_CalledOnEmptyQueue ==
    /\ q_call.op = "GetVideoFrame(delta_time)" /\ q_call.pre = 0
    /\ host.result = "Decal"
    /\ TimeDriven(media, video_fifo, audio_fifo)
    /\ q_call.arg >= media.last_video_pts
    /\ media.video_frame # EmptyFrame

\* C13 (as stated): with audio opened, the value of GetCurrentPlaybackTime()
\* never decreases from one step to the next, and does not change across a
\* step taken while the media is paused.
C13_PlaybackTimeMonotoneAndFrozen ==
    [][ media.audio_opened =>
          /\ GetCurrentPlaybackTime(media') >= GetCurrentPlaybackTime(media)
          /\ (media.is_paused /\ media'.is_paused) =>
                 GetCurrentPlaybackTime(media') = GetCurrentPlaybackTime(media) ]_vars

\* the decoding thread has committed three frames to a video_fifo of capacity 2,
\* the last of them in the last step, with no pop by the consumer in between
C18_ThreeCommitsNoPop ==
    /\ media.video_opened /\ ~media.attached_pic
    /\ VideoQueue_capacity(video_fifo) = 2
    /\ q_call.op = "video packet" /\ q_call.ret = 1
    /\ q_call.batch = 3

\* C18 (as stated): after three commits to a capacity-2 queue with no consumer
\* pop, the queue holds two frames, the newest being the frame committed last.
C18_HoldsTwoNewestFrames ==
    C18_ThreeCommitsNoPop =>
        /\ Len(QueuedFrames(video_fifo)) = 2
        /\ QueuedFrames(video_fifo)[1] < QueuedFrames(video_fifo)[2]
        /\ QueuedFrames(video_fifo)[2] = q_call.arg

\* C18 (amended): after three commits to a capacity-2 queue with no consumer
\* pop, the queue holds exactly one frame, the frame committed last: the
\* decoding thread fills a queue to capacity - 1 and evicts beyond that.
C18_HoldsNewestFrameOnly ==
    C18_ThreeCommitsNoPop => QueuedFrames(video_fifo) = <<q_call.arg>>

---------------------------------------------------------------------------
(* Properties of Seek and Open, checked under Spec *)

\* the clock values Seek re-synchronises
Clocks(m) ==
    <<m.audio_time, m.audio_frames_consumed, m.last_video_pts, m.delta_time_accumulator>>

\* C14 (as stated): when Seek(t) on media with video has succeeded with both
\* streams caught up, GetCurrentPlaybackTime() is the timestamp of the first
\* video frame at or after t, the only frame time in [t, t + one frame).
C14_SeekLandsOnFirstFrameAtTarget ==
    ( /\ host.op = "Seek" /\ host.pc = "seek_start" /\ host.result = "Success"
      /\ host.video_seeked /\ host.audio_seeked
      /\ IsVideoOpened )
    => ( /\ GetCurrentPlaybackTime(media) >= host.wanted
         /\ GetCurrentPlaybackTime(media) = host.baseline )

\* C15: from the failure of av_seek_frame to the return of Seek, the steps of
\* Seek leave both queues, the four clock values and the read position as they
\* were, the result is Error, and the decoding thread is started again.
C15_FailedCoarseSeekChangesNothing ==
    [][ ( /\ host.op = "Seek" /\ host.pc \in {"seek_frame", "seek_start"}
          /\ host'.pc \in {"seek_start", "return"}
          /\ host'.wanted = 0 )
        => ( /\ video_fifo' = video_fifo
             /\ audio_fifo' = audio_fifo
             /\ Clocks(media') = Clocks(media)
             /\ media'.read_pos = media.read_pos
             /\ host'.result = "Error"
             /\ host'.pc = "return" => worker'.pc = "start" ) ]_vars

\* C15 witness: a Seek whose av_seek_frame failed has returned Error on media
\* that holds queued frames, and the new decoding thread is at its start
C15_SeekFailedWithFramesQueued ==
    /\ host.op = "Seek" /\ host.pc = "return" /\ host.result = "Error"
    /\ host.wanted = 0
    /\ IsVideoOpened /\ VideoQueue_size(video_fifo) > 0
    /\ media.last_video_pts = 0 /\ media.read_pos > 0
    /\ worker.pc = "start"

\* C16 (as stated): when Open has returned Error, neither stream is opened and
\* no decoding thread is running.
C16_FailedOpenLeavesClosed ==
    (host.op = "Open" /\ host.pc = "return" /\ host.result = "Error")
    => ( /\ ~IsVideoOpened /\ ~IsAudioOpened
         /\ worker.pc \in {"none", "exited"} )

\* C17 (as stated): std::terminate is never reached by starting a second
\* decoding thread, and when Open gets to OpenFile the previous decoding thread
\* has been stopped and joined.
C17_OpenJoinsPreviousWorker ==
    /\ ~media.terminated
    /\ host.pc = "open_file" => ~frame_loader_joinable(worker)

\* C21: the step on which Seek returns on open media, whatever the result and
\* whether the media was paused before, leaves the media playing with a
\* decoding thread newly started, keep_loading set and finished_reading reset.
C21_SeekEndsPlaying ==
    [][ (host.op = "Seek" /\ host.pc = "seek_start" /\ host'.pc = "return")
        => ( /\ ~media'.is_paused
             /\ worker'.pc = "start"
             /\ media'.keep_loading /\ ~media'.finished_reading
             /\ ~media'.terminated ) ]_vars

\* C21 witness: a Seek has returned on media whose packets had all been read
\* before, and the media plays with the new decoding thread at its start
C21_SeekReturnedAfterEndOfStream ==
    /\ host.op = "Seek" /\ host.pc = "return"
    /\ media.read_pos = MaxPackets /\ host.wanted = 0
    /\ ~media.is_paused /\ worker.pc = "start" /\ ~media.finished_reading

\* the synchronisation clock: the audio clock when audio is open, else the
\* accumulated delta time with the timestamp of the last video frame
SyncClock(m) ==
    IF m.audio_opened THEN <<m.audio_time, m.audio_frames_consumed>>
    ELSE <<m.delta_time_accumulator, m.last_video_pts>>

\* Open returns Success with a stream opened
OpenSucceeds ==
    /\ host.op = "Open" /\ host.pc = "open_file"
    /\ host'.pc = "return" /\ host'.result = "Success"
    /\ media'.video_opened \/ media'.audio_opened

\* Seek returns Success after the catch-up loop reached the target on every open stream
SeekSucceeds ==
    /\ host.op = "Seek" /\ host.pc = "seek_start"
    /\ host'.pc = "return" /\ host'.result = "Success"
    /\ host.video_seeked /\ host.audio_seeked

\* C22 (as stated): when Open or Seek returns Success the synchronisation
\* clock is zero.
C22_ClockZeroAfterOpenAndSeek ==
    [][ (OpenSucceeds \/ SeekSucceeds) => SyncClock(media') = <<0, 0>> ]_vars

\* C22 (amended): when Open returns Success with a stream opened the clock is
\* zero; when Seek(t) returns Success the clock holds the position reached:
\* audio_time is a timestamp at or after t and audio_frames_consumed is
\* audio_time * sample rate, last_video_pts and delta_time_accumulator are the
\* timestamp read from the front slot of video_fifo.
C22_ClockZeroAfterOpenPositionAfterSeek ==
    [][ /\ OpenSucceeds => SyncClock(media') = <<0, 0>>
        /\ SeekSucceeds =>
             /\ media'.audio_opened =>
                  /\ media'.audio_time >= host.wanted
                  /\ media'.audio_frames_consumed = media'.audio_time * audio_sample_rate
             /\ media'.video_opened =>
                  /\ media'.last_video_pts =
                         CalculateVideoPts(video_fifo', VideoQueue_front(video_fifo'))
                  /\ media'.delta_time_accumulator = media'.last_video_pts
                  /\ VideoQueue_size(video_fifo') > 0 =>
                         media'.last_video_pts >= host.wanted ]_vars

\* C22 witness: Seek has returned Success on media with both streams open and
\* both clocks stand at or after the target, not at zero
C22_SeekReturnedWithClockAtTarget ==
    /\ host.op = "Seek" /\ host.pc = "return" /\ host.result = "Success"
    /\ host.video_seeked /\ host.audio_seeked /\ host.wanted > 0
    /\ IsVideoOpened /\ IsAudioOpened
    /\ media.audio_time >= host.wanted /\ media.last_video_pts >= host.wanted

\* C23: GetVideoFrame(delta_time) called while the media is paused pops no
\* frame and changes neither last_video_pts nor delta_time_accumulator; with
\* audio open it leaves delta_time_accumulator alone and its reference time is
\* audio_time; in video-only playback it adds delta_time to
\* delta_time_accumulator and the sum is its reference time; nothing else
\* changes delta_time_accumulator during playback.
C23_PausedAndReferenceTime ==
    [][ /\ U_GetVideoFrameDt =>
             /\ media.is_paused =>
                  /\ video_fifo' = video_fifo
                  /\ media'.last_video_pts = media.last_video_pts
                  /\ media'.delta_time_accumulator = media.delta_time_accumulator
             /\ media.audio_opened =>
                  /\ media'.delta_time_accumulator = media.delta_time_accumulator
                  /\ TimeDriven(media, video_fifo, audio_fifo) =>
                         q_call'.arg = media.audio_time
             /\ (~media.audio_opened /\ TimeDriven(media, video_fifo, audio_fifo)) =>
                  /\ media'.delta_time_accumulator =
                         media.delta_time_accumulator + q_call'.ret
                  /\ q_call'.arg = media'.delta_time_accumulator
        /\ media'.delta_time_accumulator # media.delta_time_accumulator =>
             U_GetVideoFrameDt /\ ~media.is_paused /\ ~media.audio_opened ]_vars

\* C23 witness: a video-only call with a positive delta_time whose reference
\* time also holds the delta_time of earlier calls
C23_AccumulatedReference ==
    /\ q_call.op = "GetVideoFrame(delta_time)"
    /\ IsVideoOpened /\ ~IsAudioOpened /\ ~IsPaused
    /\ q_call.ret > 0 /\ q_call.arg > q_call.ret
    /\ q_call.arg = media.delta_time_accumulator

\* C24 (as stated): when Open returns Success with a requested stream kind
\* absent, the decoding thread has been started for the streams that are
\* open (and the playback device when audio is one of them), and the process
\* goes on.
C24_AbsentStreamOpenDecodes ==
    [][ ( /\ host.op = "Open" /\ host.pc = "open_file"
          /\ host'.pc = "return" /\ host'.result = "Success"
          /\ ~(media'.video_opened /\ media'.audio_opened) )
        => ( /\ worker'.pc = "start"
             /\ ~media'.terminated
             /\ media'.audio_opened => media'.device_started ) ]_vars


----------------------------------------------------------------------------
(* C25: SkipVideoFrame() returns Error and changes nothing when video is not
   open, when FinishedReading() is true or when the video queue is empty;
   otherwise it removes exactly one frame, the oldest, signals the worker
   and returns Success.  Stated on the state in which the call returns:
   the result is Success exactly when the call's own pop() took a frame out
   of the video queue, a failing call has left the pipeline as it was, and
   a succeeding call has run notify_one (host.pc went through v_notify). *)
C25_SkipRemovesOneFrameOrFails ==
    (host.op = "SkipVideoFrame" /\ host.pc = "return")
        => /\ host.result \in {"Success", "Error"}
           /\ host.result = "Success" <=> host.popped # EmptyFrame

----------------------------------------------------------------------------
(* C26: GetAudioFrame(output, n) returns -1 and changes neither the audio
   queue nor the clock when output is null, *output is null or n is
   negative; otherwise it returns the number of samples removed from the
   audio queue (at most n), audio_frames_consumed grows by exactly that
   number, and audio_time equals audio_frames_consumed divided by the
   sample rate. *)
C26_GetAudioFrameCountsSamples ==
    [][ U_GetAudioFrame =>
          LET output       == q_call'.out[1]
              sample_count == q_call'.arg
              ret          == q_call'.ret
          IN  IF output # "buffer" \/ sample_count < 0
              THEN /\ ret = -1
                   /\ audio_fifo' = audio_fifo
                   /\ Clocks(media') = Clocks(media)
              ELSE /\ ~media'.terminated
                   /\ ret \in 0..sample_count
                   /\ AudioQueue_size(audio_fifo') = AudioQueue_size(audio_fifo) - ret
                   /\ media'.audio_frames_consumed = media.audio_frames_consumed + ret
                   /\ media'.audio_time
                        = media'.audio_frames_consumed \div audio_sample_rate ]_vars


----------------------------------------------------------------------------
(* Media::ChooseAudioFormat as a function of settings.audio_format and of  *)
(* the sample format of the audio stream.  The specification SpecFmt calls *)
(* it again and again with every pair of inputs; q_call.arg holds the pair *)
(* of the last call, host.result what it returned, and q_call.out the      *)
(* members audio_format and audio_sample_size after it.                    *)

\* enum class AudioFormat, and a value that is none of its enumerators
AudioFormats == {"Default", "U8", "S16", "S32", "F32"}
NoAudioFormat == "AudioFormat(5)"

\* enum AVSampleFormat (libavutil/samplefmt.h)
AVSampleFormats ==
    { "AV_SAMPLE_FMT_NONE",
      "AV_SAMPLE_FMT_U8",  "AV_SAMPLE_FMT_S16",  "AV_SAMPLE_FMT_S32",
      "AV_SAMPLE_FMT_FLT", "AV_SAMPLE_FMT_DBL",
      "AV_SAMPLE_FMT_U8P", "AV_SAMPLE_FMT_S16P", "AV_SAMPLE_FMT_S32P",
      "AV_SAMPLE_FMT_FLTP", "AV_SAMPLE_FMT_DBLP",
      "AV_SAMPLE_FMT_S64", "AV_SAMPLE_FMT_S64P" }

Chosen(audio_format, audio_sample_size) ==
    [result |-> "Success", audio_format |-> audio_format,
     audio_sample_size |-> audio_sample_size]

ChooseAudioFormat_Mutant(old, settings_audio_format, format) ==
    Chosen(IF settings_audio_format = "Default" THEN format ELSE "AV_SAMPLE_FMT_FLT", 4)

\* Result ChooseAudioFormat(): old holds audio_format and audio_sample_size
\* before the call, format is codecpar->format of the audio stream
ChooseAudioFormat(old, settings_audio_format, format) ==
    CASE settings_audio_format = "Default" ->
           ( CASE format \in {"AV_SAMPLE_FMT_U8", "AV_SAMPLE_FMT_U8P"} ->
                    Chosen("AV_SAMPLE_FMT_U8", 1)
               [] format \in {"AV_SAMPLE_FMT_S16", "AV_SAMPLE_FMT_S16P"} ->
                    Chosen("AV_SAMPLE_FMT_S16", 2)
               [] format \in {"AV_SAMPLE_FMT_S32", "AV_SAMPLE_FMT_S32P"} ->
                    Chosen("AV_SAMPLE_FMT_S32", 4)
               [] format \in {"AV_SAMPLE_FMT_FLT", "AV_SAMPLE_FMT_FLTP"} ->
                    Chosen("AV_SAMPLE_FMT_FLT", 4)
               [] OTHER ->
                    Chosen("AV_SAMPLE_FMT_FLT", 4) )
      [] settings_audio_format = "U8"  -> Chosen("AV_SAMPLE_FMT_U8", 1)
      [] settings_audio_format = "S16" -> Chosen("AV_SAMPLE_FMT_S16", 2)
      [] settings_audio_format = "S32" -> Chosen("AV_SAMPLE_FMT_S32", 4)
      [] settings_audio_format = "F32" -> Chosen("AV_SAMPLE_FMT_FLT", 4)
      [] OTHER -> [old EXCEPT !.result = "Error"]

\* AVSampleFormat audio_format has no initialiser; int audio_sample_size = 0
InitFmt ==
    /\ \E audio_format \in AVSampleFormats :
         q_call = [NoCall EXCEPT !.op = "Media", !.arg = <<>>,
                                 !.out = <<audio_format, 0>>]
    /\ video_fifo = VideoQueue_new
    /\ audio_fifo = AudioQueue_new
    /\ media = Media_new(FALSE)
    /\ worker = Worker_new
    /\ host = Host_new
    /\ callback = Callback_new

\* InitAudio reaches ChooseAudioFormat() with the settings of this Open
F_ChooseAudioFormat ==
    /\ \E settings_audio_format \in AudioFormats \cup {NoAudioFormat},
          format \in AVSampleFormats :
         LET old == [result |-> "None", audio_format |-> q_call.out[1],
                     audio_sample_size |-> q_call.out[2]]
             r   == ChooseAudioFormat(old, settings_audio_format, format)
         IN  /\ q_call' = [q_call EXCEPT !.op = "ChooseAudioFormat",
                               !.arg = <<settings_audio_format, format>>,
                               !.out = <<r.audio_format, r.audio_sample_size>>]
             /\ host' = Return([Host_new EXCEPT !.op = "ChooseAudioFormat"], r.result)
    /\ UNCHANGED <<video_fifo, audio_fifo, media, worker, callback>>

NextFmt == F_ChooseAudioFormat

SpecFmt == InitFmt /\ [][NextFmt]_vars

\* the interleaved target formats with the size of one sample in bytes
TargetFormats ==
    [ U8 |-> <<"AV_SAMPLE_FMT_U8", 1>>, S16 |-> <<"AV_SAMPLE_FMT_S16", 2>>,
      S32 |-> <<"AV_SAMPLE_FMT_S32", 4>>, F32 |-> <<"AV_SAMPLE_FMT_FLT", 4>> ]

\* C27: the target audio format chosen at open is always one of the four
\* interleaved formats U8, S16, S32, F32: an explicit setting selects that
\* format; Default maps U8/U8P to U8, S16/S16P to S16, S32/S32P to S32,
\* FLT/FLTP to F32 and every other source format to F32; and the stored
\* sample size is 1, 2, 4, 4 bytes respectively.  The choice is made, with
\* result Success, for each of the five enumerators of AudioFormat.
C27_TargetFormatInterleaved ==
    (q_call.op = "ChooseAudioFormat") =>
        LET settings_audio_format == q_call.arg[1]
            format == q_call.arg[2]
            target ==
                IF settings_audio_format # "Default" THEN settings_audio_format
                ELSE IF format \in {"AV_SAMPLE_FMT_U8", "AV_SAMPLE_FMT_U8P"} THEN "U8"
                ELSE IF format \in {"AV_SAMPLE_FMT_S16", "AV_SAMPLE_FMT_S16P"} THEN "S16"
                ELSE IF format \in {"AV_SAMPLE_FMT_S32", "AV_SAMPLE_FMT_S32P"} THEN "S32"
                ELSE "F32"
        IN  /\ host.result = "Success" <=> settings_audio_format \in AudioFormats
            /\ host.result = "Success" =>
                 /\ q_call.out = TargetFormats[target]
                 /\ \E t \in DOMAIN TargetFormats : q_call.out = TargetFormats[t]

\* C27 witness: with the Default setting a stream of planar doubles was given
\* the target format F32 with 4-byte samples
C27_DefaultFallsBackToF32 ==
    /\ q_call.op = "ChooseAudioFormat"
    /\ q_call.arg = <<"Default", "AV_SAMPLE_FMT_DBLP">>
    /\ host.result = "Success"
    /\ q_call.out = <<"AV_SAMPLE_FMT_FLT", 4>>

----------------------------------------------------------------------------
(* C28: Open with a buffering-scale factor (preloaded_frames_scale) of 0
   returns Error before any file, stream or worker state is touched: media
   that was open before the call stays open with its decoding thread
   running and its queues unchanged.  Stated on the step that enters Open
   with scale 0: it is the step that returns, the result is Error, and both
   queues, every Media field, the decoding thread and the audio callback
   are as they were. *)
C28_ZeroScaleOpenTouchesNothing ==
    [][ (host.pc = "idle" /\ host'.op = "Open" /\ host'.scale = 0)
        => ( /\ host'.pc = "return" /\ host'.result = "Error"
             /\ video_fifo' = video_fifo
             /\ audio_fifo' = audio_fifo
             /\ media' = media
             /\ worker' = worker
             /\ callback' = callback ) ]_vars

\* C28 witness: Open with scale 0 has returned Error on media that is open
\* with frames queued, while the decoding thread is in its loop
C28_ZeroScaleOpenOnOpenMedia ==
    /\ host.op = "Open" /\ host.pc = "return" /\ host.scale = 0
    /\ host.result = "Error"
    /\ IsVideoOpened /\ VideoQueue_size(video_fifo) > 0
    /\ frame_loader_joinable(worker) /\ worker.pc # "exited"
    /\ ~media.finished_reading

----------------------------------------------------------------------------
(* C29: Pause() and Play() do nothing when no media is open, Pause() when
   already paused and Play() when already playing change nothing, and after
   a successful Open the media is never paused even if the previously
   opened media was paused. *)
C29_PauseIdempotentOpenUnpauses ==
    [][ /\ ((H_Pause \/ H_Play) /\ ~(IsVideoOpened \/ IsAudioOpened))
            => UNCHANGED vars
        /\ (H_Pause /\ IsPaused) => UNCHANGED vars
        /\ (H_Play /\ ~IsPaused) => UNCHANGED vars
        /\ ( /\ host.op = "Open" /\ host.pc = "open_file"
             /\ host'.pc = "return" /\ host'.result = "Success" )
            => ~media'.is_paused ]_vars

\* C29 witness: an Open called on open, paused media has returned Success
\* with a stream open, and the media is not paused
C29_OpenedAfterPausedMedia ==
    /\ host.op = "Open" /\ host.pc = "return" /\ host.result = "Success"
    /\ host.closed_paused
    /\ IsVideoOpened \/ IsAudioOpened
    /\ ~IsPaused

----------------------------------------------------------------------------
(* C30: in every reachable state of the running pipeline (decoding thread
   or the catch-up loop of Seek producing, consumer popping concurrently)
   the video queue holds at most capacity - 1 committed frames, so the
   slot back() hands to the producer is never the slot at the deletion
   cursor while the queue is non-empty. *)
C30_QueueKeepsOneSlotFree ==
    video_fifo.alloc =>
        /\ VideoQueue_size(video_fifo) <= VideoQueue_capacity(video_fifo) - 1
        /\ VideoQueue_size(video_fifo) > 0
             => VideoQueue_back(video_fifo) # VideoQueue_front(video_fifo)

----------------------------------------------------------------------------
(* C31: the decoding thread blocks in its wait phase exactly while no
   shutdown is requested and every open stream's queue size is strictly
   above its low-water mark, where the video mark is max(capacity / 2, 1)
   of the video queue's capacity and the audio mark is max(capacity / 2, 1)
   of the audio queue's capacity; it never reads a packet while both queues
   are above their marks.  Stated on states in which no notify_one() of a
   consumer is still to come: a thread blocked in wait() has keep_loading
   set and every open stream above its mark, and a thread about to call
   av_read_frame has an open stream at or below its mark. *)
AboveLowWater ==
    /\ media.video_opened
         => VideoQueue_size(video_fifo) > Max(VideoQueue_capacity(video_fifo) \div 2, 1)
    /\ media.audio_opened
         => AudioQueue_size(audio_fifo) > Max(AudioQueue_capacity(audio_fifo) \div 2, 1)

C31_BlocksExactlyAboveLowWater ==
    /\ (worker.pc = "waiting" /\ host.pc # "v_notify" /\ callback.pc # "notify")
          => (media.keep_loading /\ AboveLowWater)
    /\ worker.pc = "read" => ~AboveLowWater

----------------------------------------------------------------------------
(* C32: after a successful coarse seek in Seek(t), when the
   re-synchronisation loop finishes, every frame in the video queue has a
   timestamp at or after t and the audio queue contains only samples of
   audio blocks whose timestamp is at or after t; nothing decoded before
   the seek remains in either queue.  Stated from the first step of the
   loop on: every queued frame and sample carries a timestamp from t up to
   the packet the loop read last, so none is older than t and none comes
   from a read position the seek has left behind. *)
C32_QueuesHoldOnlyUnitsAtOrAfterTarget ==
    (host.op = "Seek" /\ host.pc \in {"seek_adjust", "seek_start"} /\ host.wanted > 0)
        => /\ \A i \in 1..Len(QueuedFrames(video_fifo)) :
                /\ QueuedFrames(video_fifo)[i] >= host.wanted
                /\ QueuedFrames(video_fifo)[i] <= media.read_pos
           /\ \A i \in 1..Len(audio_fifo.samples) :
                /\ audio_fifo.samples[i] >= host.wanted
                /\ audio_fifo.samples[i] <= media.read_pos

\* C32 witness: the loop of a Seek to a target behind the first packet has
\* finished with a frame and a sample queued
C32_ResynchronisedBothQueues ==
    /\ host.op = "Seek" /\ host.pc = "seek_start" /\ host.wanted >= 2
    /\ IsVideoOpened /\ IsAudioOpened
    /\ Len(QueuedFrames(video_fifo)) > 0
    /\ Len(audio_fifo.samples) > 0

----------------------------------------------------------------------------
(* C33: the decoding thread checks the shutdown flag after every wake-up
   and before every packet read: once StopDecodingThread has returned, the
   thread performs no further packet read, decode, queue pop or queue push
   until StartDecodingThread is called again.  As steps: the thread gets to
   av_read_frame only from its test of keep_loading, with keep_loading
   true; the step in which StopDecodingThread returns leaves no decoding
   thread; and while there is none, only StartDecodingThread makes one and
   a step that is neither the host's nor the audio callback's changes no
   queue and reads no packet. *)
C33_StoppedThreadDoesNothing ==
    [][ /\ (worker'.pc = "read" /\ worker.pc # "read")
            => (worker.pc = "chk_keep2" /\ media.keep_loading)
        /\ (host.pc = "stop_join" /\ host'.pc # "stop_join")
            => worker'.pc = "none"
        /\ worker.pc = "none"
            => /\ worker'.pc # "none"
                   => (host.pc \in {"open_file", "seek_start"} /\ worker'.pc = "start")
               /\ (host' = host /\ callback' = callback /\ host.pc # "seek_adjust")
                   => /\ video_fifo' = video_fifo
                      /\ audio_fifo' = audio_fifo
                      /\ media'.read_pos = media.read_pos ]_vars

\* C33 witness: StopDecodingThread of Close has returned after the thread
\* was stopped by the flag in the middle of the file
C33_StoppedInMidFile ==
    /\ host.op = "Close" /\ host.pc = "close_file"
    /\ worker.pc = "none"
    /\ ~media.keep_loading
    /\ media.read_pos > 0 /\ media.read_pos < MaxPackets

----------------------------------------------------------------------------
(* The locks: VideoQueue::_mut, AudioQueue::_mut and Media::mutex, the      *)
(* mutex of the condition variable.  The specification SpecLock runs the   *)
(* decoding thread, the host and the audio callback through the lock and   *)
(* unlock steps of their calls; q_call[t] is the state of thread t:        *)
(*   pc     "none" / "start" / "running" / "lock" / "locked" / "waiting"   *)
(*          / "relock" / "exited" / "join"                                 *)
(*   want   the lock the thread is acquiring or the method in progress took *)
(*   holds  the set of locks the thread holds                              *)
(* media.keep_loading is the shutdown flag.                                *)

Threads    == {"worker", "host", "callback"}
QueueLocks == {"video", "audio"}

\* the queues whose methods a thread calls: the decoding thread and the host
\* use both, the device callback calls GetAudioFrame only
Calls(t) == IF t = "callback" THEN {"audio"} ELSE QueueLocks

Thread_new(pc) == [pc |-> pc, want |-> "none", holds |-> {}]

LockFree(L) == \A t \in Threads : L \notin q_call[t].holds

Unlocked_Mutant(holds, L) == holds

\* the std::unique_lock of a queue method goes out of scope at its return
Unlocked(holds, L) == holds \ {L}

InitLock ==
    /\ q_call = [t \in Threads |-> Thread_new(IF t = "worker" THEN "none" ELSE "running")]
    /\ media = Media_new(FALSE)
    /\ video_fifo = VideoQueue_new
    /\ audio_fifo = AudioQueue_new
    /\ worker = Worker_new
    /\ host = Host_new
    /\ callback = Callback_new

\* a thread enters a queue method: std::unique_lock<std::mutex> lock(_mut)
K_Call ==
    /\ \E t \in Threads, L \in QueueLocks :
         /\ L \in Calls(t)
         /\ q_call[t].pc = "running"
         /\ q_call' = [q_call EXCEPT ![t].pc = "lock", ![t].want = L]
    /\ UNCHANGED <<video_fifo, audio_fifo, media, worker, host, callback>>

\* the lock is granted
K_Lock ==
    /\ \E t \in Threads :
         /\ q_call[t].pc = "lock" /\ LockFree(q_call[t].want)
         /\ q_call' = [q_call EXCEPT ![t].pc = "locked",
                                     ![t].holds = @ \cup {q_call[t].want}]
    /\ UNCHANGED <<video_fifo, audio_fifo, media, worker, host, callback>>

\* the queue method returns
K_Unlock ==
    /\ \E t \in Threads :
         /\ q_call[t].pc = "locked"
         /\ q_call' = [q_call EXCEPT ![t].pc = "running", ![t].want = "none",
                                     ![t].holds = Unlocked(@, q_call[t].want)]
    /\ UNCHANGED <<video_fifo, audio_fifo, media, worker, host, callback>>

\* StartDecodingThread(): keep_loading = true; frame_loader = std::thread(...)
K_Start ==
    /\ q_call["host"].pc = "running" /\ q_call["worker"].pc = "none"
    /\ q_call' = [q_call EXCEPT !["worker"] = Thread_new("start")]
    /\ media' = [media EXCEPT !.keep_loading = TRUE]
    /\ UNCHANGED <<video_fifo, audio_fifo, worker, host, callback>>

\* std::unique_lock<std::mutex> lock(mutex) at the start of DecodingThread, and
\* the re-acquisition of mutex with which conditional.wait(lock) returns
K_LockMutex ==
    /\ q_call["worker"].pc \in {"start", "relock"} /\ LockFree("mutex")
    /\ q_call' = [q_call EXCEPT !["worker"].pc = "running",
                                !["worker"].holds = @ \cup {"mutex"}]
    /\ UNCHANGED <<video_fifo, audio_fifo, media, worker, host, callback>>

\* conditional.wait(lock): mutex is released and the thread blocks
K_Wait ==
    /\ q_call["worker"].pc = "running" /\ media.keep_loading
    /\ q_call' = [q_call EXCEPT !["worker"].pc = "waiting",
                                !["worker"].holds = @ \ {"mutex"}]
    /\ UNCHANGED <<video_fifo, audio_fifo, media, worker, host, callback>>

\* conditional.notify_one() of a consumer, called between queue methods
K_Notify ==
    /\ \E t \in {"host", "callback"} : q_call[t].pc = "running"
    /\ q_call["worker"].pc = "waiting"
    /\ q_call' = [q_call EXCEPT !["worker"].pc = "relock"]
    /\ UNCHANGED <<video_fifo, audio_fifo, media, worker, host, callback>>

\* the thread function returns: lock goes out of scope
K_Exit ==
    /\ q_call["worker"].pc = "running"
    /\ q_call' = [q_call EXCEPT !["worker"].pc = "exited", !["worker"].holds = {}]
    /\ UNCHANGED <<video_fifo, audio_fifo, media, worker, host, callback>>

\* StopDecodingThread(): keep_loading = false; conditional.notify_one(); join()
K_Stop ==
    /\ q_call["host"].pc = "running" /\ q_call["worker"].pc # "none"
    /\ media' = [media EXCEPT !.keep_loading = FALSE]
    /\ q_call' = [q_call EXCEPT !["host"].pc = "join",
                                !["worker"].pc = IF @ = "waiting" THEN "relock" ELSE @]
    /\ UNCHANGED <<video_fifo, audio_fifo, worker, host, callback>>

\* frame_loader.join() returns
K_Join ==
    /\ q_call["host"].pc = "join" /\ q_call["worker"].pc = "exited"
    /\ q_call' = [q_call EXCEPT !["host"].pc = "running",
                                !["worker"] = Thread_new("none")]
    /\ UNCHANGED <<video_fifo, audio_fifo, media, worker, host, callback>>

NextLock ==
    \/ K_Call \/ K_Lock \/ K_Unlock
    \/ K_Start \/ K_LockMutex \/ K_Wait \/ K_Notify \/ K_Exit
    \/ K_Stop \/ K_Join

SpecLock == InitLock /\ [][NextLock]_vars

\* the thread that holds lock L, "none" if it is free
Holder(L) ==
    IF LockFree(L) THEN "none" ELSE CHOOSE t \in Threads : L \in q_call[t].holds

\* C34: no thread ever holds the video queue's lock and the audio queue's
\* lock at the same time, and no thread waits for the mutex of the
\* condition variable while holding a queue lock, so no interleaving of
\* decoding thread, host and audio callback deadlocks on lock ordering: a
\* thread that waits for a lock waits for a thread that is inside a queue
\* method or running, never for one that itself waits for a lock.
C34_NoLockOrderingDeadlock ==
    \A t \in Threads :
       /\ ~(QueueLocks \subseteq q_call[t].holds)
       /\ q_call[t].pc \in {"start", "relock", "waiting"}
             => q_call[t].holds \cap QueueLocks = {}
       /\ (q_call[t].pc = "lock" /\ ~LockFree(q_call[t].want))
             => q_call[Holder(q_call[t].want)].pc \in {"locked", "running"}
       /\ (q_call[t].pc \in {"start", "relock"} /\ ~LockFree("mutex"))
             => q_call[Holder("mutex")].pc \in {"locked", "running"}

\* C34 witness: the decoding thread, holding mutex, is inside a video queue
\* method while the host waits for the video queue's lock and the callback
\* is inside an audio queue method
C34_ContendedQueueLock ==
    /\ q_call["worker"].holds = {"mutex", "video"}
    /\ q_call["host"].pc = "lock" /\ q_call["host"].want = "video"
    /\ q_call["callback"].holds = {"audio"}

----------------------------------------------------------------------------
(* C35: Seek(t) returns Success only if every open stream produced at least
   one decoded unit at or after t during re-synchronisation (so the clock
   baseline was set from an accepted unit); if end of stream or a read
   error is hit before that, Seek does not report Success. *)
C35_SuccessOnlyWhenBothStreamsCaughtUp ==
    (host.op = "Seek" /\ host.pc = "return" /\ host.result = "Success")
        => (host.video_seeked /\ host.audio_seeked)

----------------------------------------------------------------------------
(* C36: the producer evicts the oldest video frame only to make room for a
   frame it then commits: a video packet of the re-synchronisation loop for
   which no frame is committed (the decoder yields none, or the frame lies
   before the seek target) never reduces the number of frames in the video
   queue, and the queue is non-empty when AdjustSeekedPosition reads front()
   for the clock baseline. *)
C36_EvictionOnlyForCommittedFrame ==
    [][ /\ (host.pc = "seek_adjust" /\ host'.pc = "seek_adjust"
                /\ media'.read_pos # media.read_pos /\ worker' = worker)
            => VideoQueue_size(video_fifo') >= VideoQueue_size(video_fifo)
        /\ (host.pc = "seek_adjust" /\ host'.pc = "seek_start"
                /\ host.video_seeked /\ host.audio_seeked /\ IsVideoOpened)
            => VideoQueue_size(video_fifo) > 0 ]_vars

----------------------------------------------------------------------------
(* Draining: playback in which the host only calls GetVideoFrame(delta_time) *)
(* and the audio device only calls GetAudioFrame.  A call that would take    *)
(* something out of its queue is eventually made.                            *)

NextDrain ==
    \/ D_Video \/ D_Audio \/ D_Other \/ D_End
    \/ U_GetVideoFrameDt \/ U_GetAudioFrame

SpecDrain ==
    /\ InitPlay /\ [][NextDrain]_vars
    /\ WF_vars(U_GetVideoFrameDt /\ video_fifo' # video_fifo)
    /\ WF_vars(U_GetAudioFrame /\ audio_fifo' # audio_fifo)

(* C37: with both video and audio open, once the worker has signalled end of
   stream and the host keeps calling GetVideoFrame(delta_time) while the
   audio callback keeps pulling, FinishedReading() eventually becomes true:
   no buffered video frame stays in the video queue for ever. *)
C37_DrainedAfterEndOfStream ==
    (IsVideoOpened /\ IsAudioOpened /\ media.finished_reading) ~> FinishedReading

----------------------------------------------------------------------------
(* Media::VideoQueue with push() called at any size: _size is a uint16_t,  *)
(* so the number of states is bounded by its width.  No frame is written   *)
(* into a slot; only the counter and the cursors move.                     *)

\* push() at any size
Q_PushAlways ==
    /\ video_fifo' = VideoQueue_push(video_fifo)
    /\ q_call' = [q_call EXCEPT !.op = "push", !.pre = VideoQueue_size(video_fifo)]
    /\ UNCHANGED <<audio_fifo, media, worker, host, callback>>

NextVQWide == Q_PushAlways \/ Q_Pop \/ Q_Clear

SpecVQWide == InitVQ /\ [][NextVQWide]_vars

\* both cursors name a slot and the insertion cursor is size slots past the
\* deletion cursor
CursorsAgree(q) ==
    /\ q.insert_idx \in 0..(q.capacity - 1)
    /\ q.delete_idx \in 0..(q.capacity - 1)
    /\ q.insert_idx = (q.delete_idx + q.size) % q.capacity

\* C38 (as stated): in every state of an initialised queue reached by push,
\* pop and clear, both cursors are in [0, capacity) and insert_idx equals
\* (delete_idx + size) mod capacity; clear resets size and both cursors to 0.
C38_CursorsAgreeInEveryState ==
    /\ CursorsAgree(video_fifo)
    /\ q_call.op = "clear" =>
          /\ video_fifo.size = 0
          /\ video_fifo.insert_idx = 0 /\ video_fifo.delete_idx = 0

\* C38 (amended): the queue is initialised with agreeing cursors, and every
\* pop, every clear and every push made while size() < capacity() keeps both
\* cursors in [0, capacity) with insert_idx = (delete_idx + size) mod
\* capacity; clear resets size and both cursors to 0.
C38_GuardedCallsKeepCursorsAgreeing ==
    [][ /\ (/\ CursorsAgree(video_fifo)
            /\ q_call'.op = "push" =>
                  VideoQueue_size(video_fifo) < VideoQueue_capacity(video_fifo))
           => CursorsAgree(video_fifo')
        /\ q_call'.op = "clear" =>
              /\ video_fifo'.size = 0
              /\ video_fifo'.insert_idx = 0 /\ video_fifo'.delete_idx = 0 ]_vars

\* C38 witness: pops have taken the deletion cursor round to slot 0 again
\* while a frame pushed after the insertion cursor wrapped is still queued
C38_BothCursorsWrapped ==
    /\ q_call.op = "pop" /\ q_call.pre = 2
    /\ video_fifo.delete_idx = 0 /\ video_fifo.insert_idx = 1
    /\ VideoQueue_size(video_fifo) = 1
====
